---- MODULE Spec2Model ----
(***************************************************************************)
(* AgentOS monolith: MCP gateway, agents, sale creation, delivery          *)
(* lifecycle.  Each subsystem has its own specification over the shared    *)
(* variables:                                                              *)
(*   SpecGateway   POST /mcp/exec  (api/v1/endpoints/mcp_gateway.py)        *)
(*   SpecSales     concurrent SalesService.create_sale requests            *)
(*   SpecSalesSeq  create_sale requests issued one after the other         *)
(*   SpecDelivery  DeliveryAgent.execute and the delivery service          *)
(*   SpecAgents    SalesAgent.execute and DeliveryAgent.execute, one call  *)
(*                 slot each                                               *)
(*   SpecRegistry  execute_agent_action (agents/agent_registry.py)         *)
(*   SpecFanout    create_sale while the audit store, the broker or the    *)
(*                 task dispatcher may be unavailable                      *)
(*   SpecAlloc     one create_sale against competing stock writers;        *)
(*                 SpecAllocFair adds the fairness of the retry loop       *)
(*   SpecBroadcast the Redis listener routing channel payloads to the      *)
(*                 connected WebSocket clients                             *)
(*   SpecListener  start, reconnection and stop of the listener task;      *)
(*                 SpecListenerFair adds the fairness of the event loop    *)
(*   SpecPublish   NotificationService.publish_websocket_update            *)
(*   SpecWorker    the Celery tasks and their retries; SpecWorkerFair adds *)
(*                 the fairness of the worker                              *)
(*   SpecErrors    service errors through agent, registry and gateway      *)
(*   SpecSanitizer sanitize_log_data of the audit record (mcp_executor.py) *)
(*   SpecPeople    profile creation and update (modules/people)            *)
(*   SpecCloud     SemanticLLMExecutor.execute and its provider calls      *)
(*   SpecMemory    HybridMemory of one chat: MongoDB and the Redis cache   *)
(*   SpecTool      execute_mcp_tool and its audit records                  *)
(*                                                                         *)
(* The model follows the logic of the handlers as written.  ProductService *)
(* is imported by modules/sales/service.py but is not among the sources;   *)
(* its allocate_stock is modelled from its documented behaviour (read,     *)
(* stock check, conditional update on the observed version, bounded        *)
(* retry).  The WebSocket connection manager (app.websocket.               *)
(* connection_manager) is likewise absent; broadcast reaches every live    *)
(* connection and broadcast_to_user the connections of one user.  The      *)
(* Redis client module (app.core.redis_client) is absent as well:          *)
(* get_redis_client returns the client or raises RuntimeError.  Names      *)
(* the sources use without defining or importing them are taken to resolve *)
(* as their use suggests.  Monetary amounts are IEEE 754 binary64 values,  *)
(* computed bit for bit.                                                   *)
(***************************************************************************)
EXTENDS Integers, Sequences, FiniteSets, TLC

VARIABLES
    gwLog,        \* /mcp/exec requests: slot -> request, context handed to the agent, response
    now,          \* wall clock (datetime.now), in ticks
    products,     \* products collection: sku -> document
    sales,        \* sales collection: sequence of Sale documents, in insertion order
    req,          \* create_sale requests: slot -> coroutine state
    salesSlots,   \* request slots in use by the specification
    sequential,   \* TRUE when create_sale requests are issued one at a time
    audit,        \* audit_log collection (audit_service.log_event)
    events,       \* events handed to notification_service.publish_websocket_update
    deliveries,   \* deliveries collection: delivery id -> document
    call,         \* DeliveryAgent.execute calls: slot -> coroutine state
    delivSlots,   \* delivery call slots in use by the specification
    channel,      \* messages published on the Redis channel, in order
    tasks,        \* tasks sent to the Celery broker
    down,         \* collaborators that are unavailable: subset of {"audit", "broker"}
    received,     \* WebSocket subscriber -> messages sent to it
    cursor,       \* number of channel messages the Redis listener has routed
    regCalls,     \* AgentRegistry.execute_agent_action calls: slot -> call and outcome
    listener,     \* the WebSocket Redis listener: task handle, stop event, task state
    notifier,     \* NotificationService: cached client, calls of publish and their outcome
    worker,       \* Celery worker: task messages with their state, dead-letter queue
    sanit,        \* sanitize_log_data: the last input and its output
    people,       \* profiles collection, its unique indexes, the last answer of the service
    cloud,        \* semantic executor: provider calls made, the last answer
    memory,       \* HybridMemory: MongoDB documents, Redis lists, the answers of the reads
    tool          \* execute_mcp_tool: audit records written, the calls and their outcomes

vars == <<gwLog, now, products, sales, req, salesSlots, sequential, audit, events,
          deliveries, call, delivSlots, channel, tasks, down, received, cursor,
          regCalls, listener, notifier, worker, sanit,
          people, cloud, memory, tool>>

gatewayVars  == <<gwLog>>
salesVars    == <<products, sales, req, salesSlots, sequential>>
deliveryVars == <<deliveries, call, delivSlots>>
fanoutVars   == <<tasks, down, received, cursor>>
registryVars == <<regCalls>>
laterVars == <<people, cloud, memory, tool>>
platformVars == <<listener, notifier, worker, sanit, laterVars>>

None  == "<none>"
Unset == "<unset>"

(***************************************************************************)
(* Amounts: Python floats (IEEE 754 binary64), as far as the amounts of a  *)
(* sale need them.  A natural number is a sequence of limbs of LimbBits    *)
(* bits, least significant first, without leading zero limbs; a float is   *)
(* [m, e] with value m * 2^e and m odd (m empty: zero).  Amounts stay far  *)
(* from the exponent range's ends, so neither subnormals nor infinities    *)
(* occur.                                                                  *)
(***************************************************************************)
MantissaBits == 53          \* precision of binary64
LimbBits == 15
FractionLimbs == 4          \* limbs of quotient computed below the point when dividing by 100

RECURSIVE Pow2(_)
Pow2(k) == IF k = 0 THEN 1 ELSE 2 * Pow2(k - 1)

Base == Pow2(LimbBits)

NatOf(n) == IF n = 0 THEN <<>> ELSE IF n < Base THEN <<n>> ELSE <<n % Base, n \div Base>>

RECURSIVE IntOfNat(_)
IntOfNat(a) == IF a = <<>> THEN 0 ELSE a[1] + Base * IntOfNat(Tail(a))

RECURSIVE StripLimbs(_)
StripLimbs(a) ==
    IF a # <<>> /\ a[Len(a)] = 0 THEN StripLimbs(SubSeq(a, 1, Len(a) - 1)) ELSE a

RECURSIVE AddCarry(_, _, _)
AddCarry(a, b, c) ==
    IF a = <<>> /\ b = <<>> THEN (IF c = 0 THEN <<>> ELSE <<c>>)
    ELSE LET t == (IF a = <<>> THEN 0 ELSE a[1]) + (IF b = <<>> THEN 0 ELSE b[1]) + c
         IN <<t % Base>> \o AddCarry(IF a = <<>> THEN a ELSE Tail(a),
                                     IF b = <<>> THEN b ELSE Tail(b), t \div Base)

NatAdd(a, b) == AddCarry(a, b, 0)

RECURSIVE TimesCarry(_, _, _)
TimesCarry(a, k, c) ==
    IF a = <<>> THEN NatOf(c)
    ELSE LET t == a[1] * k + c
         IN <<t % Base>> \o TimesCarry(Tail(a), k, t \div Base)

\* a * k for a small k
NatTimes(a, k) == StripLimbs(TimesCarry(a, k, 0))

\* a * 2^n
ShiftLeft(a, n) ==
    IF a = <<>> THEN <<>>
    ELSE LET s == n % LimbBits
         IN [i \in 1..(n \div LimbBits) |-> 0]
               \o NatTimes(NatTimes(a, Pow2(s \div 2)), Pow2(s - s \div 2))

\* a \div 2^n
ShiftRight(a, n) ==
    LET limbs == n \div LimbBits
        s     == n % LimbBits
        b     == IF limbs >= Len(a) THEN <<>> ELSE SubSeq(a, limbs + 1, Len(a))
    IN StripLimbs([i \in 1..Len(b) |->
          (b[i] \div Pow2(s))
             + (IF i < Len(b) THEN (b[i + 1] % Pow2(s)) * Pow2(LimbBits - s) ELSE 0)])

RECURSIVE BitLenOfInt(_)
BitLenOfInt(n) == IF n = 0 THEN 0 ELSE 1 + BitLenOfInt(n \div 2)

BitLen(a) == IF a = <<>> THEN 0 ELSE LimbBits * (Len(a) - 1) + BitLenOfInt(a[Len(a)])

\* bit n of a, bit 1 being the least significant
Bit(a, n) ==
    LET limb == (n - 1) \div LimbBits + 1
    IN IF n < 1 \/ limb > Len(a) THEN 0
       ELSE (a[limb] \div Pow2((n - 1) % LimbBits)) % 2

\* some of the bits 1..n of a is set
AnyBitUpTo(a, n) == \E i \in 1..n : Bit(a, i) = 1

\* the number of zero bits below the lowest set bit of a # 0
TrailingZeros(a) == CHOOSE n \in 0..BitLen(a) : Bit(a, n + 1) = 1 /\ ~AnyBitUpTo(a, n)

\* the float with value m * 2^e, m odd
Float(m, e) ==
    IF m = <<>> THEN [m |-> <<>>, e |-> 0]
    ELSE [m |-> ShiftRight(m, TrailingZeros(m)), e |-> e + TrailingZeros(m)]

\* m * 2^e (plus a nonzero rest below the last bit when sticky), rounded to
\* MantissaBits bits, ties to even
RoundToDouble(m, e, sticky) ==
    IF BitLen(m) <= MantissaBits THEN Float(m, e)
    ELSE LET d     == BitLen(m) - MantissaBits
             kept  == ShiftRight(m, d)
             half  == Bit(m, d) = 1
             below == sticky \/ AnyBitUpTo(m, d - 1)
             up    == half /\ (below \/ Bit(kept, 1) = 1)
         IN Float(IF up THEN NatAdd(kept, <<1>>) ELSE kept, e + d)

\* the exact sum of two floats
ExactAdd(p, q) ==
    IF p.m = <<>> THEN q ELSE IF q.m = <<>> THEN p
    ELSE LET e == IF p.e < q.e THEN p.e ELSE q.e
         IN Float(NatAdd(ShiftLeft(p.m, p.e - e), ShiftLeft(q.m, q.e - e)), e)

\* float + float
FloatAdd(p, q) ==
    LET s == ExactAdd(p, q) IN RoundToDouble(s.m, s.e, FALSE)

\* float * int
FloatTimesInt(p, k) == RoundToDouble(NatTimes(p.m, k), p.e, FALSE)

\* long division by 100, most significant limb first: quotient and remainder
RECURSIVE DivideBy100(_, _)
DivideBy100(a, r) ==
    IF a = <<>> THEN [q |-> <<>>, r |-> r]
    ELSE LET cur  == r * Base + a[Len(a)]
             rest == DivideBy100(SubSeq(a, 1, Len(a) - 1), cur % 100)
         IN [q |-> rest.q \o <<cur \div 100>>, r |-> rest.r]

\* the float nearest to cents / 100 (the value of the literal "c.cc")
FloatOfCents(cents) ==
    LET d == DivideBy100([i \in 1..FractionLimbs |-> 0] \o <<cents>>, 0)
    IN RoundToDouble(StripLimbs(d.q), -(FractionLimbs * LimbBits), d.r # 0)

\* the integer nearest to 100 * p, ties to even
CentsOf(p) ==
    LET b == NatTimes(p.m, 100)
        d == -p.e
    IN IF d <= 0 THEN IntOfNat(ShiftLeft(b, p.e))
       ELSE LET whole == IntOfNat(ShiftRight(b, d))
                half  == Bit(b, d) = 1
                below == AnyBitUpTo(b, d - 1)
            IN IF half /\ (below \/ whole % 2 = 1) THEN whole + 1 ELSE whole

\* Python's round(p, 2): the float nearest to the two-digit decimal nearest to p
Round2(p) == FloatOfCents(CentsOf(p))

(***************************************************************************)
(* Services: AuditService, NotificationService                             *)
(***************************************************************************)
\* the collaborators of the fan-out: the audit collection (MongoDB), the
\* Redis connection of the publisher, the Celery broker
Collaborators == {"audit", "broker", "dispatcher"}

\* a collaborator becomes unavailable; the connections to it are lost, the
\* listener's subscription with them
Fail(c) ==
    /\ c \notin down
    /\ down' = down \cup {c}
    /\ listener' = IF c = "broker" /\ listener.pubsub = "subscribed"
                   THEN [listener EXCEPT !.pubsub = "broken"]
                   ELSE listener
    /\ UNCHANGED <<notifier, worker, sanit, laterVars>>
    /\ UNCHANGED <<now, audit, events, channel, tasks, received, cursor>>
    /\ UNCHANGED <<gwLog, products, sales, req, salesSlots, sequential>>
    /\ UNCHANGED <<deliveries, call, delivSlots, regCalls>>

\* a collaborator is available again
Recover(c) ==
    /\ c \in down
    /\ down' = down \ {c}
    /\ UNCHANGED <<now, audit, events, channel, tasks, received, cursor>>
    /\ UNCHANGED <<gwLog, products, sales, req, salesSlots, sequential>>
    /\ UNCHANGED <<deliveries, call, delivSlots, regCalls>>
    /\ UNCHANGED platformVars

\* the principals of the live WebSocket connections
Subscribers == {"c1", "c2"}

\* the document log_event stores: "trace_id": trace_id or "N/A"
AuditDocument(entry, trace_id) ==
    entry @@ [trace_id |-> IF trace_id = None THEN "N/A" ELSE trace_id]

\* AuditService.log_event: returns without writing when the collection is not
\* available; an insert that fails is logged and swallowed
LogEvent(entry) ==
    IF "audit" \in down THEN audit ELSE Append(audit, AuditDocument(entry, None))

\* the payload NotificationService.publish_websocket_update builds
WebsocketUpdate(target, target_id, event_type, data) ==
    [ target |-> target, target_id |-> target_id,
      event_type |-> event_type, data |-> data ]

\* NotificationService.publish: False, with nothing published, when Redis is
\* not available or the publish raises
Publish(message) ==
    IF "broker" \in down THEN channel ELSE Append(channel, message)

(***************************************************************************)
(* Bounds                                                                  *)
(***************************************************************************)
MaxTime    == 2      \* clock ticks
MaxReq     == 2      \* concurrent create_sale requests
MaxCalls   == 2      \* concurrent DeliveryAgent.execute calls
MaxSaleHistory == 2      \* status_history entries per sale
MaxVersion == 5          \* product versions competing writers may reach
MaxChannel == 3          \* messages published on the channel
MaxStock == 2            \* stock level competing writers may restore
MaxStarts == 3           \* listener tasks created
MaxPublish == 2          \* calls of NotificationService.publish_websocket_update
MaxTasks == 2            \* task messages sent to the worker

(***************************************************************************)
(* MCP gateway: execute_mcp_action                                         *)
(***************************************************************************)
\* CurrentUser: the authenticated Principal (user_id, roles)
Principals ==
    { [user_id |-> "u1", roles |-> {"sales_agent"}],
      [user_id |-> "u2", roles |-> {"admin"}] }

\* X-Trace-ID request header: absent, or a caller-chosen value
TraceHeaders == {None, "t-hdr"}

\* MCPRequestContext as sent by the caller; Unset ({Unset} for roles) = field
\* not in the body
CallerContexts ==
    [ trace_id   : {Unset, "t-spoof"},
      user_id    : {Unset, "u2"},
      agent_id   : {Unset, "u2"},
      roles      : {{Unset}, {"admin"}},
      session_id : {"s1"} ]

\* request.context is Optional: absent (present = FALSE), or an MCPRequestContext
RequestContexts ==
    { [present |-> FALSE, value |-> [trace_id |-> Unset, user_id |-> Unset,
         agent_id |-> Unset, roles |-> {Unset}, session_id |-> Unset]] }
    \cup { [present |-> TRUE, value |-> c] : c \in CallerContexts }

ContextFields == {"trace_id", "user_id", "agent_id", "roles", "session_id"}

\* trace_id_middleware: X-Trace-ID header if present, else a fresh uuid4
TraceIdMiddleware(header) == IF header = None THEN "uuid4" ELSE header

\* request.context.model_dump(exclude_unset=True) if request.context else {}
\* (a dict is modelled as a record over ContextFields; Unset = key absent)
ModelDumpExcludeUnset(ctx) ==
    IF ~ctx.present
    THEN [f \in ContextFields |-> IF f = "roles" THEN {Unset} ELSE Unset]
    ELSE ctx.value

\* a plausible slip: roles are only filled in when the caller sent none
BuildExecContextKeepRoles(ctx, currentUser, trace_id) ==
    LET base == ModelDumpExcludeUnset(ctx)
    IN [base EXCEPT !.agent_id = currentUser.user_id,
                    !.user_id  = currentUser.user_id,
                    !.roles    = IF base.roles = {Unset} THEN currentUser.roles
                                 ELSE base.roles,
                    !.trace_id = trace_id]

\* exec_context: caller context, then the four authoritative fields overwritten
BuildExecContext(ctx, currentUser, trace_id) ==
    LET base == ModelDumpExcludeUnset(ctx)
    IN [base EXCEPT !.agent_id = currentUser.user_id,
                    !.user_id  = currentUser.user_id,
                    !.roles    = currentUser.roles,
                    !.trace_id = trace_id]

\* outcome of agent_registry.execute_agent_action as seen by the gateway
RegistryOutcomes == {"ok", "agent_error_403", "exception"}

\* HTTP status of the gateway's response for a registry outcome
GatewayStatus(outcome) ==
    CASE outcome = "ok"              -> 200
      [] outcome = "agent_error_403" -> 403
      [] OTHER                       -> 500

\* the two requests whose handling is compared
GatewaySlots == {"first", "second"}

NoRequest ==
    [ handled |-> FALSE, principal |-> [user_id |-> None, roles |-> {}],
      header |-> None,
      context |-> [present |-> FALSE, value |-> ModelDumpExcludeUnset([present |-> FALSE])],
      exec_context |-> ModelDumpExcludeUnset([present |-> FALSE]),
      status_code |-> 0, x_trace_id |-> None ]

\* POST /mcp/exec: the context is built and handed to the registry with the
\* payload; the registry's outcome becomes the response
ExecuteMcpAction(g, currentUser, header, ctx, outcome) ==
    LET trace_id     == TraceIdMiddleware(header)
        exec_context == BuildExecContext(ctx, currentUser, trace_id)
    IN /\ ~gwLog[g].handled
       /\ gwLog' = [gwLog EXCEPT ![g] =
              [ handled      |-> TRUE,
                principal    |-> currentUser,
                header       |-> header,
                context      |-> ctx,
                exec_context |-> exec_context,
                status_code  |-> GatewayStatus(outcome),
                x_trace_id   |-> trace_id ]]
       /\ UNCHANGED <<now, audit, events, channel>>
       /\ UNCHANGED salesVars
       /\ UNCHANGED deliveryVars
       /\ UNCHANGED fanoutVars
       /\ UNCHANGED registryVars
       /\ UNCHANGED platformVars

(***************************************************************************)
(* Sales: SalesService.create_sale                                         *)
(***************************************************************************)
Skus == {"A", "B"}                       \* products in the store ("Z" is no product)

ReqIds == 1..MaxReq

\* products collection at start: sku -> {available_stock, version, price}
InitProducts ==
    [s \in Skus |->
        [ available_stock        |-> 2,
          version                |-> 1,
          \* 0.10 and 0.20
          standard_selling_price |-> IF s = "A" THEN FloatOfCents(10)
                                                   ELSE FloatOfCents(20) ]]

\* profiles the people service knows: client id -> is_active
ActiveClients == {"c1"}

\* settings.DUPLICATE_SALE_WINDOW_MINUTES, in clock ticks
DuplicateWindow == 1

\* retries of a failed conditional stock update
MaxAllocRetries == 3

Item(sku, quantity) == [sku |-> sku, quantity |-> quantity]

\* payload.data of the create_sale requests the callers send (idempotency_key
\* is sent by the caller; CreateSaleActionPayload and CreateSaleInput have no
\* such field, so validation drops it)
SaleData(client_id, key, items) ==
    [client_id |-> client_id, idempotency_key |-> key, items |-> items, sale_id |-> 0]

\* execution contexts: NoContext when execute is called without one
\* the trace id of the request a caller's context comes from
TraceOf(agent_id) == IF agent_id = "u1" THEN "t-1" ELSE "t-2"

Caller(agent_id) ==
    [ present |-> TRUE, agent_id |-> agent_id, roles |-> {"sales_agent"},
      trace_id |-> TraceOf(agent_id) ]
NoContext == [present |-> FALSE, agent_id |-> None, roles |-> {}, trace_id |-> None]

\* (action, data, context) triples SalesAgent.execute is called with
SalesRequests ==
    { [action |-> "create_sale", context |-> Caller("u1"),
       data |-> SaleData("c1", "k1", <<Item("A", 1), Item("B", 1)>>)],
      [action |-> "create_sale", context |-> Caller("u1"),
       data |-> SaleData("c1", "k1", <<Item("B", 1), Item("A", 1)>>)],
      [action |-> "create_sale", context |-> Caller("u1"),
       data |-> SaleData("c1", None, <<Item("A", 1), Item("B", 3)>>)],
      [action |-> "create_sale", context |-> Caller("u1"),
       data |-> SaleData("c1", None, <<Item("A", 1), Item("Z", 1)>>)],
      [action |-> "create_sale", context |-> Caller("u2"),
       data |-> SaleData("c1", "k1", <<Item("A", 1)>>)],
      [action |-> "create_sale", context |-> Caller("u1"),
       data |-> SaleData("c0", None, <<Item("A", 1)>>)],
      \* rejected by the agent
      [action |-> "create_sale", context |-> Caller("u1"),
       data |-> SaleData("c1", None, <<>>)],
      [action |-> "create_sale", context |-> Caller("u1"),
       data |-> SaleData("c1", None, <<Item("A", 0)>>)],
      [action |-> "refund_sale", context |-> Caller("u1"),
       data |-> SaleData("c1", None, <<Item("A", 1)>>)],
      [action |-> "refund_sale", context |-> NoContext,
       data |-> SaleData("c1", None, <<>>)],
      [action |-> "create_sale", context |-> NoContext,
       data |-> SaleData("c1", None, <<Item("A", 1)>>)],
      \* read-only actions
      [action |-> "get_sale_status", context |-> Caller("u1"),
       data |-> [SaleData(Unset, None, <<>>) EXCEPT !.sale_id = 1]],
      [action |-> "get_sale_status", context |-> Caller("u1"),
       data |-> [SaleData(Unset, None, <<>>) EXCEPT !.sale_id = 2]] }

\* the payload get_sale_status returns (NoResult: none returned)
NoResult == [sale_id |-> 0, status |-> None]

NoInput == [agent_id |-> None, client_id |-> None, items |-> <<>>, idempotency_key |-> None]

\* a request slot before SalesAgent.execute is called (0: no value yet)
IdleReq ==
    [ pc |-> "idle", action |-> None, data |-> SaleData(Unset, None, <<>>),
      context |-> NoContext, input |-> NoInput, idx |-> 0, observed |-> 0,
      retries |-> 0, allocated |-> <<>>, error |-> None, status_code |-> 0,
      rejected_at |-> None, sale_id |-> 0, post |-> None,
      dup_check |-> None,      \* "passed", "raised", or "skipped" (lookup failed)
      sales_seen |-> 0,        \* number of sales in the store at the duplicate check
      doc |-> 0,               \* position of the document this request inserted
      stock_before |-> InitProducts, sales_before |-> 0,
      result |-> NoResult,
      trace_id |-> None ]      \* trace id of the request (context and response header)

\* ---- strings, as sequences of character codes ----
SkuChars(sku) == CASE sku = "A" -> <<65>> [] sku = "B" -> <<66>> [] OTHER -> <<90>>

RECURSIVE Digits(_)
\* str(n) for n >= 0
Digits(n) == IF n < 10 THEN <<48 + n>> ELSE Digits(n \div 10) \o <<48 + (n % 10)>>

\* f"{i.sku}:{i.quantity}"
ItemString(item) == SkuChars(item.sku) \o <<58>> \o Digits(item.quantity)

RECURSIVE StrLess(_, _)
\* Python's str "<": lexicographic on code points
StrLess(s, t) ==
    IF t = <<>> THEN FALSE
    ELSE IF s = <<>> THEN TRUE
    ELSE IF Head(s) # Head(t) THEN Head(s) < Head(t)
    ELSE StrLess(Tail(s), Tail(t))

RECURSIVE InsertSorted(_, _)
InsertSorted(x, list) ==
    IF list = <<>> THEN <<x>>
    ELSE IF StrLess(Head(list), x) THEN <<Head(list)>> \o InsertSorted(x, Tail(list))
    ELSE <<x>> \o list

RECURSIVE SortedStrings(_)
\* sorted(list_of_str)
SortedStrings(list) ==
    IF list = <<>> THEN <<>> ELSE InsertSorted(Head(list), SortedStrings(Tail(list)))

RECURSIVE JoinPipe(_)
\* "|".join(list_of_str)
JoinPipe(list) ==
    IF list = <<>> THEN <<>>
    ELSE IF Len(list) = 1 THEN Head(list)
    ELSE Head(list) \o <<124>> \o JoinPipe(Tail(list))

\* a slip: the signature is built without sorting
ItemsSignatureUnsorted(items) ==
    JoinPipe([i \in 1..Len(items) |-> ItemString(items[i])])

\* "|".join(sorted([f"{i.sku}:{i.quantity}" for i in items]))
ItemsSignature(items) ==
    JoinPipe(SortedStrings([i \in 1..Len(items) |-> ItemString(items[i])]))

\* a slip: the window is taken ahead of now instead of back from it
FindRecentWindowAhead(agent_id, client_id, time_window) ==
    { i \in 1..Len(sales) :
        /\ sales[i].agent_id = agent_id
        /\ sales[i].client_id = client_id
        /\ sales[i].created_at >= now + time_window
        /\ sales[i].status # "cancelled" }

\* SaleRepository.find_recent_by_agent_and_client: indices of the matching sales
FindRecentByAgentAndClient(agent_id, client_id, time_window) ==
    { i \in 1..Len(sales) :
        /\ sales[i].agent_id = agent_id
        /\ sales[i].client_id = client_id
        /\ sales[i].created_at >= now - time_window
        /\ sales[i].status # "cancelled" }

\* the loop of _check_duplicate_sale: TRUE when DuplicateSaleError is raised
IsDuplicateSale(agent_id, client_id, items) ==
    \E i \in FindRecentByAgentAndClient(agent_id, client_id, DuplicateWindow) :
        ItemsSignature(sales[i].items) = ItemsSignature(items)

Quiescent(r) ==
    \A o \in salesSlots \ {r} :
        req[o].pc = "idle" \/ (req[o].pc = "done" /\ req[o].post # "scheduled")

\* action_schemas of SalesAgent
SalesActionSchemas == {"create_sale", "get_sale_status", "list_recent_sales"}

\* PayloadSchema.model_validate(data) succeeds
SalesPayloadValid(action, data) ==
    CASE action = "create_sale" ->
            /\ data.client_id # Unset
            /\ Len(data.items) >= 1
            /\ \A i \in 1..Len(data.items) : data.items[i].quantity > 0
      [] action = "get_sale_status" -> data.sale_id # 0
      [] OTHER -> TRUE

\* the except clauses of SalesAgent.execute: domain error -> status code
SalesAgentStatus(error) ==
    CASE error \in {"InsufficientStockError", "LowClientScoreError", "DuplicateSaleError"} -> 409
      [] error \in {"ProductNotFoundError", "ClientNotFoundError", "NotFound"} -> 404
      [] error = "SaleCreationError" -> 400
      [] OTHER -> 200

\* the agent raises AgentExecutionError before any service call
Rejected(action, step, code) ==
    [IdleReq EXCEPT !.pc = "done", !.action = action, !.error = "AgentExecutionError",
                    !.status_code = code, !.rejected_at = step]

\* a slip: the payload is validated before the action name is looked up
SalesAgentChecksPayloadFirst(action, data, context) ==
    IF ~context.present THEN <<"agent_id", 401>>
    ELSE IF action \in SalesActionSchemas /\ ~SalesPayloadValid(action, data)
         THEN <<"payload", 400>>
    ELSE IF action \notin SalesActionSchemas THEN <<"payload", 400>>
    ELSE <<None, 0>>

\* the checks of SalesAgent.execute before the dispatch, in order:
\* <<step that rejects, status code>>, or <<None, 0>> when the request passes
SalesAgentChecks(action, data, context) ==
    IF ~context.present THEN <<"agent_id", 401>>
    ELSE IF action \notin SalesActionSchemas THEN <<"action", 400>>
    ELSE IF ~SalesPayloadValid(action, data) THEN <<"payload", 400>>
    ELSE <<None, 0>>

\* SalesService.create_sale up to the duplicate check: the client profile lookup
CreateSaleBegin(input) ==
    LET started == [IdleReq EXCEPT !.action = "create_sale", !.input = input,
                                   !.stock_before = products,
                                   !.sales_before = Len(sales)]
    IN IF input.client_id \in ActiveClients
       THEN [started EXCEPT !.pc = "dup_check"]
       ELSE [started EXCEPT !.pc = "done", !.error = "ClientNotFoundError",
                            !.status_code = SalesAgentStatus("ClientNotFoundError")]

\* SalesService.get_sale_by_id / list_recent_sales_for_user: reads only
SalesReadOnly(action, data) ==
    LET found == action = "list_recent_sales" \/ data.sale_id \in 1..Len(sales)
    IN [IdleReq EXCEPT !.pc = "done", !.action = action,
                       !.error = IF found THEN None ELSE "NotFound",
                       !.status_code = IF found THEN 200 ELSE 404,
                       !.result = IF found /\ action = "get_sale_status"
                                  THEN [sale_id |-> data.sale_id,
                                        status  |-> sales[data.sale_id].status]
                                  ELSE NoResult]

\* a caller invokes SalesAgent.execute(payload, context)
CallSalesAgent(r, action, data, context) ==
    /\ r \in salesSlots
    /\ req[r].pc = "idle"
    /\ sequential => Quiescent(r)
    /\ req' = [req EXCEPT ![r] = [@ EXCEPT !.pc = "called", !.action = action,
                                           !.data = data, !.context = context,
                                           !.trace_id = context.trace_id]]
    /\ UNCHANGED <<products, sales, salesSlots, sequential, now, audit, events, channel>>
    /\ UNCHANGED gatewayVars
    /\ UNCHANGED deliveryVars
    /\ UNCHANGED fanoutVars
    /\ UNCHANGED registryVars
    /\ UNCHANGED platformVars

\* SalesAgent.execute up to the first store access of the service it calls
SalesAgentExecute(r) ==
    /\ r \in salesSlots
    /\ req[r].pc = "called"
    /\ LET action  == req[r].action
           data    == req[r].data
           context == req[r].context
           verdict == SalesAgentChecks(action, data, context)
           after   ==
            IF verdict[1] # None
            THEN Rejected(action, verdict[1], verdict[2])
            ELSE IF action = "create_sale"
            THEN CreateSaleBegin([agent_id  |-> context.agent_id,
                                  client_id |-> data.client_id,
                                  items     |-> data.items,
                                  idempotency_key |-> data.idempotency_key])
            ELSE SalesReadOnly(action, data)
       IN req' = [req EXCEPT ![r] = [after EXCEPT !.trace_id = req[r].trace_id]]
    /\ UNCHANGED <<products, sales, salesSlots, sequential, now, audit, events, channel>>
    /\ UNCHANGED gatewayVars
    /\ UNCHANGED deliveryVars
    /\ UNCHANGED fanoutVars
    /\ UNCHANGED registryVars
    /\ UNCHANGED platformVars

\* create_sale ends with a domain error.  Inside the transaction block this
\* leaves "async with session.with_transaction()" and the transaction is
\* aborted; no call in create_sale is given the session (allocate_stock(sku,
\* quantity) and sale_repo.create_sale(sale_doc_data) take none), so no write
\* belongs to the transaction and the abort reverts nothing.
AbortWith(r, error) ==
    [req[r] EXCEPT !.pc = "done", !.error = error,
                   !.status_code = SalesAgentStatus(error)]

\* _check_duplicate_sale; repo_ok = FALSE: the lookup raises RepositoryError,
\* which is logged and the sale proceeds
CheckDuplicateSale(r, repo_ok) ==
    /\ r \in salesSlots
    /\ req[r].pc = "dup_check"
    /\ LET in == req[r].input
       IN req' = [req EXCEPT ![r] =
            IF repo_ok /\ IsDuplicateSale(in.agent_id, in.client_id, in.items)
            THEN [AbortWith(r, "DuplicateSaleError") EXCEPT
                     !.dup_check = "raised", !.sales_seen = Len(sales)]
            ELSE [@ EXCEPT !.pc = "alloc_read", !.idx = 1,
                           !.dup_check = IF repo_ok THEN "passed" ELSE "skipped",
                           !.sales_seen = Len(sales)]]
    /\ UNCHANGED <<products, sales, salesSlots, sequential, now, audit, events, channel>>
    /\ UNCHANGED gatewayVars
    /\ UNCHANGED deliveryVars
    /\ UNCHANGED fanoutVars
    /\ UNCHANGED registryVars
    /\ UNCHANGED platformVars

\* ProductService.allocate_stock, first half: read the product by SKU and
\* check the stock
AllocateStockRead(r) ==
    /\ r \in salesSlots
    /\ req[r].pc = "alloc_read"
    /\ LET item == req[r].input.items[req[r].idx]
       IN req' = [req EXCEPT ![r] =
            IF item.sku \notin Skus
            THEN AbortWith(r, "ProductNotFoundError")
            ELSE IF products[item.sku].available_stock < item.quantity
            THEN AbortWith(r, "InsufficientStockError")
            ELSE [@ EXCEPT !.pc = "alloc_cas",
                           !.observed = products[item.sku].version]]
    /\ UNCHANGED <<products, sales, salesSlots, sequential, now, audit, events, channel>>
    /\ UNCHANGED gatewayVars
    /\ UNCHANGED deliveryVars
    /\ UNCHANGED fanoutVars
    /\ UNCHANGED registryVars
    /\ UNCHANGED platformVars

\* a slip: the update is not conditional on the observed version
AllocateStockUpdateBlind(r) ==
    /\ r \in salesSlots
    /\ req[r].pc = "alloc_cas"
    /\ LET item == req[r].input.items[req[r].idx]
           last == req[r].idx = Len(req[r].input.items)
       IN /\ products' = [products EXCEPT ![item.sku] =
                           [@ EXCEPT !.available_stock = @ - item.quantity,
                                     !.version = @ + 1]]
          /\ req' = [req EXCEPT ![r] =
                      [@ EXCEPT !.allocated = Append(@, item),
                                !.observed = 0, !.retries = 0,
                                !.idx = IF last THEN @ ELSE @ + 1,
                                !.pc = IF last THEN "insert" ELSE "alloc_read"]]
    /\ UNCHANGED <<sales, salesSlots, sequential, now, audit, events, channel>>
    /\ UNCHANGED gatewayVars
    /\ UNCHANGED deliveryVars
    /\ UNCHANGED fanoutVars
    /\ UNCHANGED registryVars
    /\ UNCHANGED platformVars

\* ProductService.allocate_stock, second half: the conditional update
\* {sku, version: observed} -> $inc available_stock by -quantity, version by 1;
\* no match: retry, and InsufficientStockError once the retries are used up.
\* On success create_sale appends to allocated_products and goes to the next item.
AllocateStockUpdate(r) ==
    /\ r \in salesSlots
    /\ req[r].pc = "alloc_cas"
    /\ LET item == req[r].input.items[req[r].idx]
           p    == products[item.sku]
           hit  == p.version = req[r].observed
           last == req[r].idx = Len(req[r].input.items)
       IN /\ products' =
               IF hit
               THEN [products EXCEPT ![item.sku] =
                       [@ EXCEPT !.available_stock = @ - item.quantity,
                                 !.version = @ + 1]]
               ELSE products
          /\ req' = [req EXCEPT ![r] =
               IF hit
               THEN [@ EXCEPT !.allocated = Append(@, item),
                              !.observed = 0, !.retries = 0,
                              !.idx = IF last THEN @ ELSE @ + 1,
                              !.pc = IF last THEN "insert" ELSE "alloc_read"]
               ELSE IF req[r].retries >= MaxAllocRetries
               THEN AbortWith(r, "InsufficientStockError")
               ELSE [@ EXCEPT !.retries = @ + 1, !.observed = 0,
                              !.pc = "alloc_read"]]
    /\ UNCHANGED <<sales, salesSlots, sequential, now, audit, events, channel>>
    /\ UNCHANGED gatewayVars
    /\ UNCHANGED deliveryVars
    /\ UNCHANGED fanoutVars
    /\ UNCHANGED registryVars
    /\ UNCHANGED platformVars

\* another writer of the product (a stock adjustment, an allocation by another
\* process) while an allocation is in progress: available_stock changes by
\* delta and the version goes up by one
CompetingWrite(sku, delta) ==
    /\ \E r \in salesSlots : req[r].pc \in {"alloc_read", "alloc_cas"}
    /\ products[sku].version < MaxVersion
    /\ products[sku].available_stock + delta >= 0
    /\ products[sku].available_stock + delta <= MaxStock
    /\ products' = [products EXCEPT ![sku] =
                     [@ EXCEPT !.available_stock = @ + delta, !.version = @ + 1]]
    /\ UNCHANGED <<sales, req, salesSlots, sequential, now, audit, events, channel>>
    /\ UNCHANGED gatewayVars
    /\ UNCHANGED deliveryVars
    /\ UNCHANGED fanoutVars
    /\ UNCHANGED registryVars
    /\ UNCHANGED platformVars

\* outcomes of SaleRepository.create_sale
InsertOutcomes == {"ok", "insert_fails", "find_fails", "map_fails"}

\* a slip: the first entry names "system" (the repository's default) as actor
InitialStatusHistorySystem(agent_id) ==
    << [status |-> "processing", timestamp |-> now, actor_id |-> "system"] >>

\* the status_history create_sale puts in sale_doc_data
InitialStatusHistory(agent_id) ==
    << [status |-> "processing", timestamp |-> now, actor_id |-> agent_id] >>

\* the SaleItem create_sale builds for an allocated item: unit_price is the
\* product's standard_selling_price, total_price = round(unit_price * quantity, 2)
SaleItem(item) ==
    LET unit_price == products[item.sku].standard_selling_price
    IN [ sku |-> item.sku, quantity |-> item.quantity,
         unit_price  |-> unit_price,
         total_price |-> Round2(FloatTimesInt(unit_price, item.quantity)) ]

ProcessedItems(allocated) == [i \in 1..Len(allocated) |-> SaleItem(allocated[i])]

\* total_amount = 0.0, then total_amount += total_item_price item by item
RECURSIVE Accumulate(_, _)
Accumulate(total_amount, items) ==
    IF items = <<>> THEN total_amount
    ELSE Accumulate(FloatAdd(total_amount, Head(items).total_price), Tail(items))

\* sale_doc_data as built by create_sale
SaleDocData(r) ==
    [ client_id       |-> req[r].input.client_id,
      agent_id        |-> req[r].input.agent_id,
      items           |-> ProcessedItems(req[r].allocated),
      total_amount    |-> Round2(Accumulate(FloatOfCents(0),
                                            ProcessedItems(req[r].allocated))),
      status          |-> "processing",
      status_history  |-> InitialStatusHistory(req[r].input.agent_id),
      created_at      |-> now,
      updated_at      |-> now ]

\* a slip: the post-sale task is created whether or not a sale was created
PostSaleTaskAlways(created_sale) == "scheduled"

\* the end of create_sale: "if created_sale: asyncio.create_task(
\* self._trigger_post_sale_actions(...))"; every error path has raised before
PostSaleTask(created_sale) ==
    IF created_sale THEN "scheduled" ELSE None

\* SaleRepository.create_sale (insert_one, find_one, _map_doc) and the end of
\* the transaction block; on success the post-sale task is scheduled
\* (asyncio.create_task) and the sale is returned.
\*   insert_fails: insert_one raises          -> RepositoryError -> SaleCreationError
\*   find_fails:   find_one raises after the insert             -> SaleCreationError
\*   map_fails:    _map_doc returns None, create_sale sees None -> SaleCreationError
InsertSale(r, outcome) ==
    /\ r \in salesSlots
    /\ req[r].pc = "insert"
    /\ sales' = IF outcome = "insert_fails" THEN sales
                ELSE Append(sales, SaleDocData(r))
    /\ req' = [req EXCEPT ![r] =
         IF outcome = "ok"
         THEN [@ EXCEPT !.pc = "done", !.sale_id = Len(sales) + 1,
                        !.doc = Len(sales) + 1,
                        !.status_code = 200, !.post = PostSaleTask(TRUE)]
         ELSE [AbortWith(r, "SaleCreationError") EXCEPT
                  !.doc = IF outcome = "insert_fails" THEN 0 ELSE Len(sales) + 1,
                  !.post = PostSaleTask(FALSE)]]
    /\ UNCHANGED <<products, salesSlots, sequential, now, audit, events, channel>>
    /\ UNCHANGED gatewayVars
    /\ UNCHANGED deliveryVars
    /\ UNCHANGED fanoutVars
    /\ UNCHANGED registryVars
    /\ UNCHANGED platformVars

\* a slip: create_sale awaits the fan-out and fails when a collaborator does
TriggerPostSaleActionsAwaited(r) ==
    /\ r \in salesSlots
    /\ req[r].post = "scheduled"
    /\ req' = [req EXCEPT ![r] =
         IF down = {} THEN [@ EXCEPT !.post = "ran"]
         ELSE [@ EXCEPT !.post = "ran", !.error = "SaleCreationError",
                        !.status_code = 500]]
    /\ UNCHANGED <<products, sales, salesSlots, sequential, now, audit, events, channel>>
    /\ UNCHANGED gatewayVars
    /\ UNCHANGED deliveryVars
    /\ UNCHANGED fanoutVars
    /\ UNCHANGED registryVars
    /\ UNCHANGED platformVars

\* the WebSocket update _trigger_post_sale_actions publishes
SaleCreatedEvent(sale_id) ==
    WebsocketUpdate("all", "sales_dashboard", "sale_created",
                    [sale_id |-> sale_id, status |-> "processing"])

\* _trigger_post_sale_actions, run as its own task after create_sale returned:
\* the audit record and the WebSocket update; no Celery task is sent (the
\* two .delay calls are commented out)
TriggerPostSaleActions(r) ==
    /\ r \in salesSlots
    /\ req[r].post = "scheduled"
    /\ audit' = LogEvent(
         [ actor_id |-> req[r].input.agent_id, action |-> "create_sale",
           entity_type |-> "sale", entity_id |-> req[r].sale_id, success |-> TRUE ])
    /\ LET message == SaleCreatedEvent(req[r].sale_id)
       IN /\ events' = Append(events, message)
          /\ channel' = Publish(message)
    /\ req' = [req EXCEPT ![r].post = "ran"]
    /\ UNCHANGED <<products, sales, salesSlots, sequential, now>>
    /\ UNCHANGED gatewayVars
    /\ UNCHANGED deliveryVars
    /\ UNCHANGED fanoutVars
    /\ UNCHANGED registryVars
    /\ UNCHANGED platformVars

\* SaleRepository.update_sale_status: $set status, updated_at = now; $push of
\* the status_history_entry the caller built (its timestamp is the caller's)
UpdateSaleStatus(sale_id, new_status, status_history_entry) ==
    /\ salesSlots # {}
    /\ sale_id \in 1..Len(sales)
    /\ Len(sales[sale_id].status_history) < MaxSaleHistory
    /\ sales' = [sales EXCEPT ![sale_id] =
         [@ EXCEPT !.status = new_status,
                   !.updated_at = now,
                   !.status_history = Append(@, status_history_entry)]]
    /\ UNCHANGED <<products, req, salesSlots, sequential, now, audit, events, channel>>
    /\ UNCHANGED gatewayVars
    /\ UNCHANGED deliveryVars
    /\ UNCHANGED fanoutVars
    /\ UNCHANGED registryVars
    /\ UNCHANGED platformVars

\* the clock advances
Tick ==
    /\ now < MaxTime
    /\ now' = now + 1
    /\ UNCHANGED <<audit, events, channel>>
    /\ UNCHANGED gatewayVars
    /\ UNCHANGED salesVars
    /\ UNCHANGED deliveryVars
    /\ UNCHANGED fanoutVars
    /\ UNCHANGED registryVars
    /\ UNCHANGED platformVars

(***************************************************************************)
(* Delivery: DeliveryAgent.execute, DeliveryService, DeliveryRepository    *)
(***************************************************************************)
CallIds == 1..MaxCalls

DeliveryIds == {"d1"}                    \* deliveries in the store ("dX" is none)

\* DeliveryStatus
DeliveryStatuses ==
    {"pending_assignment", "assigned", "picking_up", "in_transit", "near_destination",
     "delivered", "failed_attempt", "failed_delivery", "cancelled", "returned"}

\* the statuses for which add_tracking_event sets expire_at
TerminalStatuses == {"delivered", "failed_delivery", "cancelled", "returned"}

\* getattr(settings, "DELIVERY_DOC_TTL_DAYS", 30), in clock ticks
DeliveryTtl == 30

\* the document DeliveryRepository.create_delivery inserts
NewDelivery(courier) ==
    [ client_profile_id  |-> "c1",
      courier_profile_id |-> courier,
      current_status     |-> "pending_assignment",
      tracking_history   |-> <<>>,
      current_location   |-> None,
      expire_at          |-> -1,        \* not set
      created_at         |-> 0,
      updated_at         |-> 0 ]

\* a delivery assigned to cour1 that an earlier update_status call put in transit
InTransitDelivery ==
    [ NewDelivery("cour1") EXCEPT
        !.current_status   = "in_transit",
        !.tracking_history = << [timestamp |-> 0, status |-> "in_transit",
                                 actor_id |-> "cour1", location |-> Unset] >> ]

DeliveryData(delivery_id, status, location) ==
    [delivery_id |-> delivery_id, status |-> status, location |-> location]

\* execution contexts of the callers (None: execute called without context)
DeliveryCallers ==
    { [present |-> TRUE, agent_id |-> "cour1", roles |-> {"courier"}],
      [present |-> TRUE, agent_id |-> "cour2", roles |-> {"courier"}],
      [present |-> TRUE, agent_id |-> "u1",    roles |-> {"operations"}] }

\* (action, data, context) triples DeliveryAgent.execute is called with
DeliveryRequests ==
    [ action : {"update_status"}, context : DeliveryCallers,
      data : { DeliveryData("d1", st, Unset) : st \in DeliveryStatuses } ]
    \cup
    [ action : {"update_status"}, context : {NoContext} \cup DeliveryCallers,
      data : { DeliveryData("d1", "in_transit", "p1"),
               DeliveryData("d1", "delivered", Unset),
               DeliveryData("d1", "lost", Unset),
               DeliveryData("dX", "assigned", Unset) } ]
    \cup
    [ action : {"update_location"}, context : {NoContext} \cup DeliveryCallers,
      data : { DeliveryData("d1", Unset, "p2"),
               DeliveryData("d1", Unset, Unset) } ]
    \cup
    [ action : {"get_status", "assign_courier"}, context : {NoContext} \cup DeliveryCallers,
      data : { DeliveryData("d1", Unset, Unset), DeliveryData(Unset, "lost", Unset) } ]

NoEvent == [timestamp |-> 0, status |-> None, actor_id |-> None, location |-> Unset]

\* a call slot before DeliveryAgent.execute is called (0: no value yet)
IdleCall ==
    [ pc |-> "idle", action |-> None, data |-> DeliveryData(Unset, Unset, Unset),
      actor_id |-> None, roles |-> {}, event |-> NoEvent, status_code |-> 0,
      rejected_at |-> None ]

\* a finished call keeps its outcome only
Finished(action, code, step) ==
    [IdleCall EXCEPT !.pc = "done", !.action = action,
                     !.status_code = code, !.rejected_at = step]

\* action_schemas of DeliveryAgent
DeliveryActionSchemas == {"get_status", "update_location", "update_status"}

\* PayloadSchema.model_validate(data) succeeds
DeliveryPayloadValid(action, data) ==
    /\ data.delivery_id # Unset
    /\ action = "update_status" => data.status \in DeliveryStatuses
    /\ action = "update_location" => data.location # Unset

\* a slip: the role checks are left out
DeliveryAgentChecksNoRoles(action, data, roles) ==
    IF action \notin DeliveryActionSchemas THEN <<"action", 400>>
    ELSE IF ~DeliveryPayloadValid(action, data) THEN <<"payload", 400>>
    ELSE <<None, 0>>

\* the checks of DeliveryAgent.execute before the dispatch, in order:
\* <<step that rejects, status code>>, or <<None, 0>> when the request passes
DeliveryAgentChecks(action, data, roles) ==
    IF action \notin DeliveryActionSchemas THEN <<"action", 400>>
    ELSE IF ~DeliveryPayloadValid(action, data) THEN <<"payload", 400>>
    ELSE IF action = "update_location" /\ "courier" \notin roles THEN <<"role", 403>>
    ELSE IF /\ action = "update_status"
            /\ data.status \in {"delivered", "failed_attempt"}
            /\ "courier" \notin roles THEN <<"role", 403>>
    ELSE <<None, 0>>

\* DeliveryRepository.get_delivery_by_id; an Optional is the set of at most
\* one document
GetDeliveryById(delivery_id) ==
    IF delivery_id \in DeliveryIds THEN {deliveries[delivery_id]} ELSE {}

\* DeliveryService.update_delivery_status up to add_tracking_event: the read
\* and the TrackingEventDoc (timestamp = now); no transition is validated
UpdateDeliveryStatusBegin(started) ==
    IF GetDeliveryById(started.data.delivery_id) = {}
    THEN Finished(started.action, 404, None)
    ELSE [started EXCEPT !.pc = "status_write",
            !.event = [ timestamp |-> now, status |-> started.data.status,
                        actor_id |-> started.actor_id,
                        location |-> started.data.location ]]

\* DeliveryService.update_courier_location up to update_delivery: the read and
\* the courier and status checks
UpdateCourierLocationBegin(started) ==
    LET found    == GetDeliveryById(started.data.delivery_id)
        delivery == CHOOSE d \in found : TRUE
    IN IF found = {} THEN Finished(started.action, 404, None)
       ELSE IF delivery.courier_profile_id # started.actor_id
            THEN Finished(started.action, 403, None)
       ELSE IF delivery.current_status \notin
                 {"picking_up", "in_transit", "near_destination", "failed_attempt"}
            THEN Finished(started.action, 409, None)
       ELSE [started EXCEPT !.pc = "location_write"]

\* DeliveryAgent get_status: a read of the delivery
GetDeliveryStatus(started) ==
    Finished(started.action,
             IF GetDeliveryById(started.data.delivery_id) = {} THEN 404 ELSE 200,
             None)

\* a caller invokes DeliveryAgent.execute(payload, context)
CallDeliveryAgent(c, action, data, context) ==
    /\ c \in delivSlots
    /\ call[c].pc = "idle"
    /\ call' = [call EXCEPT ![c] =
         [@ EXCEPT !.pc = "called", !.action = action, !.data = data,
                   !.actor_id = IF context.present THEN context.agent_id
                                ELSE "unknown_actor",
                   !.roles = IF context.present THEN context.roles ELSE {}]]
    /\ UNCHANGED <<deliveries, delivSlots, now, audit, events, channel>>
    /\ UNCHANGED gatewayVars
    /\ UNCHANGED salesVars
    /\ UNCHANGED fanoutVars
    /\ UNCHANGED registryVars
    /\ UNCHANGED platformVars

\* DeliveryAgent.execute up to the first store access of the service it calls
DeliveryAgentExecute(c) ==
    /\ c \in delivSlots
    /\ call[c].pc = "called"
    /\ LET action  == call[c].action
           verdict == DeliveryAgentChecks(action, call[c].data, call[c].roles)
       IN call' = [call EXCEPT ![c] =
            IF verdict[1] # None THEN Finished(action, verdict[2], verdict[1])
            ELSE IF action = "update_status" THEN UpdateDeliveryStatusBegin(call[c])
            ELSE IF action = "update_location" THEN UpdateCourierLocationBegin(call[c])
            ELSE GetDeliveryStatus(call[c])]
    /\ UNCHANGED <<deliveries, delivSlots, now, audit, events, channel>>
    /\ UNCHANGED gatewayVars
    /\ UNCHANGED salesVars
    /\ UNCHANGED fanoutVars
    /\ UNCHANGED registryVars
    /\ UNCHANGED platformVars

\* a slip: the entry is pushed but current_status is left as it was
AddTrackingEventPushOnly(delivery, event, new_status, location) ==
    [delivery EXCEPT !.tracking_history = Append(@, event),
                     !.updated_at = event.timestamp]

\* DeliveryRepository.add_tracking_event: one find_one_and_update with
\* $set current_status, updated_at (, current_location) (, expire_at) and
\* $push tracking_history
AddTrackingEvent(delivery, event, new_status, location) ==
    [delivery EXCEPT
        !.current_status   = new_status,
        !.updated_at       = event.timestamp,
        !.tracking_history = Append(@, event),
        !.current_location = IF location # Unset THEN location ELSE @,
        !.expire_at        = IF new_status \in TerminalStatuses
                             THEN event.timestamp + DeliveryTtl ELSE @]

\* a slip: the update is addressed to the courier
StatusChangedEventToCourier(delivery, id, new_status) ==
    WebsocketUpdate("user", delivery.courier_profile_id, "delivery_status_changed",
                    [delivery_id |-> id, new_status |-> new_status])

\* the WebSocket update update_delivery_status publishes
StatusChangedEvent(delivery, id, new_status) ==
    WebsocketUpdate("user", delivery.client_profile_id, "delivery_status_changed",
                    [delivery_id |-> id, new_status |-> new_status])

\* the WebSocket update update_courier_location publishes
LocationUpdateEvent(delivery, id, location) ==
    WebsocketUpdate("user", delivery.client_profile_id, "delivery_location_update",
                    [delivery_id |-> id, location |-> location])

\* update_delivery_status from add_tracking_event on: the write, then the
\* delivery_status_changed event and the audit record
UpdateDeliveryStatusWrite(c) ==
    /\ c \in delivSlots
    /\ call[c].pc = "status_write"
    /\ LET id    == call[c].data.delivery_id
           event == call[c].event
       IN /\ deliveries' = [deliveries EXCEPT ![id] =
                AddTrackingEvent(@, event, event.status, event.location)]
          /\ LET message == StatusChangedEvent(deliveries[id], id, event.status)
             IN /\ events' = Append(events, message)
                /\ channel' = Publish(message)
          /\ audit' = LogEvent(
                [ actor_id |-> call[c].actor_id,
                  action |-> "update_delivery_status_", status |-> event.status,
                  entity_type |-> "delivery", entity_id |-> id, success |-> TRUE ])
    /\ call' = [call EXCEPT ![c] = Finished(call[c].action, 200, None)]
    /\ UNCHANGED <<delivSlots, now>>
    /\ UNCHANGED gatewayVars
    /\ UNCHANGED salesVars
    /\ UNCHANGED fanoutVars
    /\ UNCHANGED registryVars
    /\ UNCHANGED platformVars

\* DeliveryRepository.update_delivery: $set update_data, updated_at = now
UpdateDelivery(delivery, update_data) ==
    [delivery EXCEPT !.current_location = update_data.current_location,
                     !.updated_at = now]

\* update_courier_location from update_delivery on: the write, then the
\* delivery_location_update event
UpdateCourierLocationWrite(c) ==
    /\ c \in delivSlots
    /\ call[c].pc = "location_write"
    /\ LET id == call[c].data.delivery_id
       IN /\ deliveries' = [deliveries EXCEPT ![id] =
                UpdateDelivery(@, [current_location |-> call[c].data.location])]
          /\ LET message == LocationUpdateEvent(deliveries[id], id,
                                                call[c].data.location)
             IN /\ events' = Append(events, message)
                /\ channel' = Publish(message)
    /\ call' = [call EXCEPT ![c] = Finished(call[c].action, 200, None)]
    /\ UNCHANGED <<delivSlots, now, audit>>
    /\ UNCHANGED gatewayVars
    /\ UNCHANGED salesVars
    /\ UNCHANGED fanoutVars
    /\ UNCHANGED registryVars
    /\ UNCHANGED platformVars

(***************************************************************************)
(* Registry: AgentRegistry.execute_agent_action                            *)
(***************************************************************************)
RegSlots == {"first", "second"}

\* the agents setup_agent_registry registers (AGENT_MODULE_PATHS)
RegisteredAgents == {"sales", "people", "delivery", "llm"}

\* the names execute_agent_action is called with
AgentNames == {"sales", "delivery", "whatsapp"}

\* status codes the agents raise AgentExecutionError with
AgentErrorCodes == {400, 403, 404, 500, 501}

\* str(e) of the exceptions that are raised inside an agent without being
\* AgentExecutionErrors
ExceptionTexts == {"boom-1", "boom-2"}

\* DeliveryAgent.execute, except Exception as e: the exception becomes an
\* AgentExecutionError with a fixed message and details = str(e)
DeliveryAgentOnException(text) ==
    [ kind |-> "AgentExecutionError", agent_name |-> "delivery", status_code |-> 500,
      details |-> text, message |-> <<"Internal error during action.">>,
      cause |-> text ]

\* what agent.execute does: returns a payload, raises AgentExecutionError
\* (agent_name, message, details and status_code as the agent set them), or
\* raises another Exception.  message: str(e), in parts; cause: the text of the
\* exception raised inside the agent, None when the agent's own checks raised
AgentOutcomes ==
    { [kind |-> "return", agent_name |-> None, status_code |-> 0, details |-> None,
       message |-> <<>>, cause |-> None] }
    \cup [ kind : {"AgentExecutionError"}, agent_name : {"sales", "delivery"},
           status_code : AgentErrorCodes, details : {None, "errors"},
           message : {<<"Invalid request.">>}, cause : {None} ]
    \cup { DeliveryAgentOnException(text) : text \in ExceptionTexts }
    \cup { [ kind |-> k, agent_name |-> None, status_code |-> c, details |-> None,
             message |-> <<text>>, cause |-> text ] :
             k \in {"ValueError", "HTTPException"}, c \in {0, 404},
             text \in ExceptionTexts }

\* the agent was not called
NotCalled == [kind |-> "not_called", agent_name |-> None, status_code |-> 0,
              details |-> None, message |-> <<>>, cause |-> None]

NoResponse == [status_code |-> 0, detail |-> [message |-> <<>>, details |-> None]]

NoRegCall == [agent_name |-> None, agent |-> NotCalled, result |-> NotCalled,
              response |-> NoResponse, service_error |-> None]

\* a slip: AgentExecutionError is wrapped like any other exception
ExecuteAgentActionWrapAll(agent_name, outcome) ==
    IF agent_name \notin RegisteredAgents
    THEN [kind |-> "AgentExecutionError", agent_name |-> agent_name,
          status_code |-> 404, details |-> None,
          message |-> <<"Agent not found.">>, cause |-> None]
    ELSE IF outcome.kind = "return" THEN outcome
    ELSE [kind |-> "AgentExecutionError", agent_name |-> agent_name,
          status_code |-> 500, details |-> None,
          message |-> <<"Unexpected internal error: ">> \o outcome.message,
          cause |-> outcome.cause]

\* what execute_agent_action returns or raises, given what agent.execute does
ExecuteAgentActionResult(agent_name, outcome) ==
    IF agent_name \notin RegisteredAgents
    THEN [kind |-> "AgentExecutionError", agent_name |-> agent_name,
          status_code |-> 404, details |-> None,
          message |-> <<"Agent not found.">>, cause |-> None]
    ELSE IF outcome.kind = "return" THEN outcome
    ELSE IF outcome.kind = "AgentExecutionError" THEN outcome          \* raise ae
    ELSE [kind |-> "AgentExecutionError", agent_name |-> agent_name,
          status_code |-> 500, details |-> None,
          \* f"Unexpected internal error: {e}"
          message |-> <<"Unexpected internal error: ">> \o outcome.message,
          cause |-> outcome.cause]

\* the gateway's response to what execute_agent_action returned or raised:
\* HTTPException(status_code = e.status_code,
\*               detail = {"message": str(e), "details": e.details})
GatewayResponse(result) ==
    IF result.kind = "return"
    THEN [status_code |-> 200, detail |-> [message |-> <<>>, details |-> None]]
    ELSE [ status_code |-> result.status_code,
           detail |-> [message |-> result.message, details |-> result.details] ]

\* AgentRegistry.execute_agent_action, called by the gateway
ExecuteAgentAction(k, agent_name, outcome) ==
    /\ regCalls' = [regCalls EXCEPT ![k] =
         [ agent_name |-> agent_name,
           agent  |-> IF agent_name \in RegisteredAgents THEN outcome ELSE NotCalled,
           result |-> ExecuteAgentActionResult(agent_name, outcome),
           response |-> GatewayResponse(ExecuteAgentActionResult(agent_name, outcome)),
           service_error |-> None ]]
    /\ UNCHANGED <<now, audit, events, channel>>
    /\ UNCHANGED gatewayVars
    /\ UNCHANGED salesVars
    /\ UNCHANGED deliveryVars
    /\ UNCHANGED fanoutVars
    /\ UNCHANGED platformVars

\* the exceptions the services raise to their agents: domain errors, and
\* HTTPException with the status the service chose.  PeopleService raises
\* DuplicateProfileError from create_profile and HTTPException otherwise
ServiceErrors ==
    [ agent_name : {"sales"}, status_code : {0},
      kind : {"DuplicateSaleError", "InsufficientStockError", "LowClientScoreError",
              "ProductNotFoundError", "ClientNotFoundError", "SaleCreationError"} ]
    \cup [ agent_name : {"delivery"}, status_code : {0},
           kind : {"InvalidDeliveryStatusError", "DeliveryNotFoundError"} ]
    \cup { [agent_name |-> "delivery", status_code |-> 403, kind |-> "HTTPException"],
           [agent_name |-> "people", status_code |-> 0, kind |-> "DuplicateProfileError"],
           [agent_name |-> "people", status_code |-> 404, kind |-> "HTTPException"],
           [agent_name |-> "people", status_code |-> 400, kind |-> "HTTPException"] }

\* the status code of the AgentExecutionError the agent's except clauses raise
\* for an exception of its service
AgentErrorStatus(error) ==
    CASE error.kind = "HTTPException" -> error.status_code
      [] error.agent_name = "sales" -> SalesAgentStatus(error.kind)
      [] error.agent_name = "delivery" /\ error.kind = "DeliveryNotFoundError" -> 404
      [] error.agent_name = "delivery" /\ error.kind = "InvalidDeliveryStatusError" -> 409
      [] OTHER -> 500                      \* except Exception

\* what agent.execute raises when its service raised error
AgentOnServiceError(error) ==
    [ kind |-> "AgentExecutionError", agent_name |-> error.agent_name,
      status_code |-> AgentErrorStatus(error), details |-> None,
      message |-> <<error.kind>>, cause |-> None ]

\* execute_agent_action for a call in which the agent's service raises error
ExecuteAgentActionServiceError(k, error) ==
    /\ regCalls' = [regCalls EXCEPT ![k] =
         LET outcome == AgentOnServiceError(error)
             result  == ExecuteAgentActionResult(error.agent_name, outcome)
         IN [ agent_name |-> error.agent_name, agent |-> outcome, result |-> result,
              response |-> GatewayResponse(result),
              service_error |-> error.kind ]]
    /\ UNCHANGED <<now, audit, events, channel>>
    /\ UNCHANGED gatewayVars
    /\ UNCHANGED salesVars
    /\ UNCHANGED deliveryVars
    /\ UNCHANGED fanoutVars
    /\ UNCHANGED platformVars

(***************************************************************************)
(* WebSocket fan-out: websocket_redis_listener_loop, connection manager    *)
(***************************************************************************)
\* payloads published on the channel the listener is subscribed to; target_id
\* None: the key is absent or null
ChannelPayloads ==
    { WebsocketUpdate("all", "sales_dashboard", "sale_created", [id |-> 1]),
      WebsocketUpdate("user", "c1", "delivery_status_changed", [id |-> 1]),
      WebsocketUpdate("user", "c2", "delivery_location_update", [id |-> 1]),
      WebsocketUpdate("user", None, "delivery_status_changed", [id |-> 1]),
      WebsocketUpdate("group", "sales_dashboard", "sale_created", [id |-> 1]),
      WebsocketUpdate("courier", "cour1", "delivery_location_update", [id |-> 2]) }

\* NotificationService.publish: a service publishes a payload on the channel
PublishPayload(payload) ==
    /\ Len(channel) < MaxChannel
    /\ "broker" \notin down
    /\ channel' = Publish(payload)
    /\ UNCHANGED <<now, audit, events>>
    /\ UNCHANGED gatewayVars
    /\ UNCHANGED salesVars
    /\ UNCHANGED deliveryVars
    /\ UNCHANGED fanoutVars
    /\ UNCHANGED registryVars
    /\ UNCHANGED platformVars

\* manager.broadcast: the message goes to every live connection
Broadcast(ws_message) ==
    [u \in Subscribers |-> Append(received[u], ws_message)]

\* manager.broadcast_to_user: the message goes to the connections of user_id
BroadcastToUser(ws_message, user_id) ==
    [u \in Subscribers |->
        IF u = user_id THEN Append(received[u], ws_message) ELSE received[u]]

\* the subscribers that joined a group: c1 joined sales_dashboard, c2 did not
GroupMembers(group_id) ==
    IF group_id = "sales_dashboard" THEN {"c1"} ELSE {}

\* the message sent to the WebSocket clients for a payload
WsMessage(payload) == [type |-> payload.event_type, payload |-> payload.data]

\* the routing of one payload with every unrouted target dropped
RouteDropUnknown(payload) ==
    LET target     == payload.target
        target_id  == payload.target_id
        ws_message == WsMessage(payload)
    IN IF target = "all" THEN Broadcast(ws_message)
       ELSE IF target = "user" /\ target_id # None
            THEN BroadcastToUser(ws_message, target_id)
       ELSE received

\* the routing of one payload by the listener
Route(payload) ==
    LET target     == payload.target
        target_id  == payload.target_id
        ws_message == WsMessage(payload)
    IN IF target = "all" THEN Broadcast(ws_message)
       ELSE IF target = "user" /\ target_id # None
            THEN BroadcastToUser(ws_message, target_id)
       ELSE Broadcast(ws_message)      \* "Unknown target or missing target_id"

\* the warnings the routing of one payload logs
RouteWarnings(payload) ==
    IF payload.target = "all" THEN 0
    ELSE IF payload.target = "user" /\ payload.target_id # None THEN 0
    ELSE 1

\* _listener_task, _stop_event and the locals of the listener task, before the
\* first start
NoListener ==
    [ handle       |-> FALSE,      \* _listener_task is not None
      starts       |-> 0,          \* tasks created so far; the last is the handle's
      pc           |-> "none",     \* none, loop, listen, sleep, done
      stop_event   |-> FALSE,
      redis_client |-> FALSE,      \* redis_client is not None
      pubsub       |-> "none",     \* none, created (no subscription), subscribed,
                                   \* broken (subscribed, connection lost)
      sub_failed   |-> FALSE,      \* psubscribe raised in this task
      orphans      |-> 0,          \* loops running that the handle does not designate
      raced        |-> FALSE,      \* a start was made while a stop was waiting
      lost         |-> FALSE,      \* the task went through a retry branch
      resumed      |-> FALSE,      \* ... and routed a message afterwards
      warnings     |-> 0,          \* routing warnings logged
      stop_pc      |-> "idle",     \* stop_websocket_listener: idle, waiting
      awaited      |-> 0 ]         \* the task stop_websocket_listener waits for

ListenerFrame ==
    /\ UNCHANGED <<now, audit, events, channel, tasks, down>>
    /\ UNCHANGED gatewayVars
    /\ UNCHANGED salesVars
    /\ UNCHANGED deliveryVars
    /\ UNCHANGED registryVars
    /\ UNCHANGED <<notifier, worker, sanit, laterVars>>

\* the task the locals belong to has not returned
LoopRunning(l) == l.pc \in {"loop", "listen", "sleep"}

\* start_websocket_listener: a task is created when there is none or the last
\* one is done (otherwise a warning only); a task that runs without being the
\* handle's goes on running beside the new one
StartWebsocketListener ==
    /\ listener.starts < MaxStarts
    /\ ~listener.handle \/ listener.pc = "done"
    /\ listener' = [listener EXCEPT !.handle = TRUE, !.starts = @ + 1,
                                    !.pc = "loop", !.stop_event = FALSE,
                                    !.redis_client = FALSE, !.pubsub = "none",
                                    !.lost = FALSE, !.resumed = FALSE,
                                    !.sub_failed = FALSE,
                                    !.orphans = IF LoopRunning(listener) THEN @ + 1 ELSE @,
                                    !.raced = @ \/ listener.stop_pc = "waiting"]
    /\ UNCHANGED <<received, cursor>>
    /\ ListenerFrame

\* except redis.ConnectionError, with the handler keeping client and pubsub
OnConnectionErrorKeep(l) ==
    [l EXCEPT !.pc = "sleep", !.lost = TRUE]

\* except redis.ConnectionError: redis_client = None; pubsub = None; sleep(5)
OnConnectionError(l) ==
    [l EXCEPT !.redis_client = FALSE, !.pubsub = "none", !.pc = "sleep",
              !.lost = TRUE]

\* except RuntimeError (get_redis_client), after pubsub was closed: sleep(10)
OnRuntimeError(l) ==
    [l EXCEPT !.pubsub = "none", !.pc = "sleep", !.lost = TRUE]

\* the listen loop ended: redis_client = None; sleep(2)
OnListenEnded(l) ==
    [l EXCEPT !.redis_client = FALSE, !.pc = "sleep", !.lost = TRUE]

\* psubscribe raises an error that is no ConnectionError (a timeout): except
\* Exception, sleep(5); the client and the pubsub object without subscription
\* are kept
OnPsubscribeError(l) ==
    [l EXCEPT !.redis_client = TRUE, !.pubsub = "created", !.pc = "sleep",
              !.lost = TRUE, !.sub_failed = TRUE]

\* pubsub.listen() waiting whatever the pubsub object is
AfterPingListens(l) == [l EXCEPT !.pc = "listen"]

\* the ping succeeded, the connect block is skipped: pubsub.listen() raises
\* AttributeError when pubsub is None (except Exception, sleep(5)), ends at
\* once when the object has no subscription ("while self.subscribed"), and
\* waits for messages otherwise
AfterPing(l) ==
    IF l.pubsub = "none" THEN [l EXCEPT !.pc = "sleep", !.lost = TRUE]
    ELSE IF l.pubsub = "created" THEN OnListenEnded(l)
    ELSE [l EXCEPT !.pc = "listen"]

\* top of the while loop: leave when the stop event is set, else connect or
\* reconnect when there is no client or the ping fails, and subscribe to the
\* patterns; messages published before the subscription are not received
ListenerConnect ==
    /\ listener.pc = "loop"
    /\ IF listener.stop_event
       THEN /\ listener' = [listener EXCEPT !.pc = "done", !.pubsub = "none",
                                            !.redis_client = FALSE]
            /\ UNCHANGED cursor
       ELSE IF "broker" \in down
       THEN /\ listener' \in
                 IF listener.redis_client
                 THEN {OnConnectionError(listener)}            \* ping raises
                 ELSE {OnRuntimeError(listener), OnConnectionError(listener),
                       OnPsubscribeError(listener)}
            /\ UNCHANGED cursor
       ELSE IF listener.redis_client
       THEN /\ listener' = AfterPing(listener)
            /\ UNCHANGED cursor
       ELSE /\ listener' = [listener EXCEPT !.redis_client = TRUE,
                                            !.pubsub = "subscribed",
                                            !.pc = "listen"]
            /\ cursor' = Len(channel)
    /\ UNCHANGED received
    /\ ListenerFrame

\* websocket_redis_listener_loop: the next message of the channel arrives; it
\* is routed, or the loop is left without routing it when the stop event is set
WebsocketRedisListenerLoop ==
    /\ listener.pc = "listen"
    /\ listener.pubsub = "subscribed"
    /\ cursor < Len(channel)
    /\ cursor' = cursor + 1
    /\ IF listener.stop_event
       THEN /\ listener' = OnListenEnded(listener)
            /\ UNCHANGED received
       ELSE /\ received' = Route(channel[cursor + 1])
            /\ listener' = [listener EXCEPT
                              !.warnings = @ + RouteWarnings(channel[cursor + 1]),
                              !.resumed = listener.lost]
    /\ ListenerFrame

\* pubsub.listen() on a lost connection: it raises ConnectionError or ends
ListenerDisconnected ==
    /\ listener.pc = "listen"
    /\ listener.pubsub # "subscribed"
    /\ listener' \in {OnConnectionError(listener), OnListenEnded(listener)}
    /\ UNCHANGED <<received, cursor>>
    /\ ListenerFrame

\* asyncio.sleep before the retry is over
ListenerWake ==
    /\ listener.pc = "sleep"
    /\ listener' = [listener EXCEPT !.pc = "loop"]
    /\ UNCHANGED <<received, cursor>>
    /\ ListenerFrame

\* a loop that runs without being the handle's leaves at the top of its while
\* loop, or on the next message, once the stop event is set
OrphanEnds ==
    /\ listener.orphans > 0
    /\ listener.stop_event
    /\ listener' = [listener EXCEPT !.orphans = @ - 1]
    /\ UNCHANGED <<received, cursor>>
    /\ ListenerFrame

\* the task stop_websocket_listener waits for is done
AwaitedDone ==
    listener.starts > listener.awaited \/ listener.pc = "done"

\* stop_websocket_listener on a running task: set the stop event and wait
StopWebsocketListener ==
    /\ listener.stop_pc = "idle"
    /\ listener.handle /\ listener.pc # "done"
    /\ listener' = [listener EXCEPT !.stop_event = TRUE, !.stop_pc = "waiting",
                                    !.awaited = listener.starts]
    /\ UNCHANGED <<received, cursor>>
    /\ ListenerFrame

\* wait_for with the timeout never cancelling the task
StopTimeoutNoCancel ==
    /\ listener.stop_pc = "waiting"
    /\ ~AwaitedDone
    /\ UNCHANGED vars

\* wait_for times out after 5 s: the task is cancelled at the await it is
\* suspended in; CancelledError is caught by none of its handlers
StopTimeout ==
    /\ listener.stop_pc = "waiting"
    /\ ~AwaitedDone
    /\ listener' = [listener EXCEPT !.pc = "done", !.pubsub = "none",
                                    !.redis_client = FALSE]
    /\ UNCHANGED <<received, cursor>>
    /\ ListenerFrame

\* the awaited task is done: finally: _listener_task = None
StopJoin ==
    /\ listener.stop_pc = "waiting"
    /\ AwaitedDone
    /\ listener' = [listener EXCEPT !.handle = FALSE, !.stop_pc = "idle"]
    /\ UNCHANGED <<received, cursor>>
    /\ ListenerFrame

(***************************************************************************)
(* NotificationService.publish, call by call                                *)
(***************************************************************************)
\* NotificationService after construction: no client cached, no call made
NoNotifier == [redis |-> FALSE, calls |-> <<>>]

\* what the data of a payload holds: JSON types only, a datetime, a dict with
\* a tuple as key, a structure that contains itself
DataKinds == {"plain", "datetime", "tuple_key", "circular"}

\* json.dumps(payload, default=str): the exception it raises, None when the
\* payload is serialized (default=str converts what is not a JSON type, but
\* neither keys nor cycles)
JsonDumps(kind) ==
    CASE kind = "tuple_key" -> "TypeError"
      [] kind = "circular"  -> "ValueError"
      [] OTHER              -> None

\* the exceptions each handler of publish catches
CaughtBy(handler) ==
    CASE handler = "TypeError"       -> {"TypeError"}
      [] handler = "ConnectionError" -> {"ConnectionError"}
      [] handler = "Exception"       -> {"TypeError", "ValueError", "ConnectionError",
                                         "RuntimeError", "TimeoutError"}

\* the handlers of publish without the last one
PublishHandlersNarrow == {"TypeError", "ConnectionError"}

\* the handlers of the try block of publish
PublishHandlers == {"TypeError", "ConnectionError", "Exception"}

\* _get_redis: the cached client, else get_redis_client(), whose RuntimeError
\* is logged and gives None
GetRedis(client_error) ==
    IF notifier.redis THEN TRUE ELSE ~client_error

\* publish: what the call returns or raises, what it logs and whether the
\* message reached the channel; error is the exception of the try block
PublishOutcome(has_client, error) ==
    IF ~has_client
    THEN [returned |-> "False", raised |-> None, logged |-> "error", sent |-> FALSE]
    ELSE IF error = None
    THEN [returned |-> "True", raised |-> None, logged |-> "info", sent |-> TRUE]
    ELSE IF \E h \in PublishHandlers : error \in CaughtBy(h)
    THEN [returned |-> "False", raised |-> None, logged |-> "error", sent |-> FALSE]
    ELSE [returned |-> None, raised |-> error, logged |-> None, sent |-> FALSE]

\* the exception of the try block: json.dumps first, then redis_client.publish,
\* which raises a ConnectionError or a timeout when the broker is unreachable
TryBlockError(kind, timeout) ==
    IF JsonDumps(kind) # None THEN JsonDumps(kind)
    ELSE IF "broker" \in down
         THEN (IF timeout THEN "TimeoutError" ELSE "ConnectionError")
    ELSE None

\* publish_websocket_update(target, target_id, event_type, data): builds the
\* payload, awaits publish and returns None unless publish raised.
\* client_error: get_redis_client raises RuntimeError (only while the broker
\* is unreachable); timeout: the failure of the connection is a timeout
PublishWebsocketUpdate(payload, kind, client_error, timeout) ==
    /\ Len(notifier.calls) < MaxPublish
    /\ client_error => "broker" \in down
    /\ LET has_client == GetRedis(client_error)
           outcome    == PublishOutcome(has_client, TryBlockError(kind, timeout))
       IN /\ notifier' =
               [ redis |-> has_client,
                 calls |-> Append(notifier.calls,
                             [ payload |-> payload, kind |-> kind,
                               has_client |-> has_client,
                               broker_down |-> "broker" \in down,
                               publish |-> outcome,
                               completed |-> outcome.raised = None ]) ]
          /\ channel' = IF outcome.sent THEN Append(channel, payload) ELSE channel
    /\ UNCHANGED <<listener, worker, sanit, laterVars>>
    /\ UNCHANGED <<now, audit, events>>
    /\ UNCHANGED gatewayVars
    /\ UNCHANGED salesVars
    /\ UNCHANGED deliveryVars
    /\ UNCHANGED fanoutVars
    /\ UNCHANGED registryVars

(***************************************************************************)
(* Celery tasks: delivery.assign_courier, delivery.trigger_fallback,        *)
(* sales.process_post_sale                                                  *)
(***************************************************************************)
TaskNames == {"delivery.assign_courier", "delivery.trigger_fallback",
              "sales.process_post_sale"}

\* the except clause of the task ends with raise self.retry(...)
Retries(task_name) ==
    task_name \in {"delivery.assign_courier", "delivery.trigger_fallback"}

\* max_retries of the task's self.retry
MaxRetries(task_name) ==
    CASE task_name = "delivery.assign_courier"   -> 3
      [] task_name = "delivery.trigger_fallback" -> 2
      [] OTHER                                   -> 0

\* the worker before any task message; state of a message: queued, success,
\* failure; retries: self.request.retries; attempts: executions so far
NoWorker == [messages |-> <<>>, dead_letter |-> <<>>]

\* a task message is sent to the worker's queue
SendTask(task_name) ==
    /\ Len(worker.messages) < MaxTasks
    /\ worker' = [worker EXCEPT !.messages =
                    Append(@, [ name |-> task_name, state |-> "queued",
                                retries |-> 0, attempts |-> 0 ])]
    /\ UNCHANGED <<listener, notifier, sanit, laterVars>>
    /\ UNCHANGED <<now, audit, events, channel>>
    /\ UNCHANGED gatewayVars
    /\ UNCHANGED salesVars
    /\ UNCHANGED deliveryVars
    /\ UNCHANGED fanoutVars
    /\ UNCHANGED registryVars

\* the except clause of a task: self.retry sends the message again with
\* retries + 1 while retries < max_retries and raises the exception otherwise;
\* process_post_sale_integrations raises it at once.  A raised exception marks
\* the task as failed.
OnTaskError(m) ==
    IF Retries(m.name) /\ m.retries < MaxRetries(m.name)
    THEN [m EXCEPT !.retries = @ + 1, !.attempts = @ + 1]
    ELSE [m EXCEPT !.state = "failure", !.attempts = @ + 1]

\* the worker executes message i; raises: the body of the task raised
RunTask(i, raises) ==
    /\ i \in 1..Len(worker.messages)
    /\ worker.messages[i].state = "queued"
    /\ worker' = [worker EXCEPT !.messages[i] =
                    IF raises THEN OnTaskError(@)
                    ELSE [@ EXCEPT !.state = "success", !.attempts = @ + 1]]
    /\ UNCHANGED <<listener, notifier, sanit, laterVars>>
    /\ UNCHANGED <<now, audit, events, channel>>
    /\ UNCHANGED gatewayVars
    /\ UNCHANGED salesVars
    /\ UNCHANGED deliveryVars
    /\ UNCHANGED fanoutVars
    /\ UNCHANGED registryVars

(***************************************************************************)
(* log_audit_event.sanitize_log_data.  A value is [type, chars, items]:     *)
(* chars are the character codes of a str, items the elements of a list or  *)
(* the [key, value] entries of a dict (keys are strs, given by their        *)
(* codes).                                                                  *)
(***************************************************************************)
MaxStringLength == 500       \* len(data) > 500
MaxListLength == 50          \* data[:50]
MaxDepth == 5                \* max_depth=5

Str(chars)    == [type |-> "str", chars |-> chars, items |-> <<>>]
Scalar(type)  == [type |-> type, chars |-> <<>>, items |-> <<>>]
List(items)   == [type |-> "list", chars |-> <<>>, items |-> items]
Dict(entries) == [type |-> "dict", chars |-> <<>>, items |-> entries]
Entry(key, value) == [key |-> key, value |-> value]

\* str.lower() on ASCII letters
Lower(chars) ==
    [i \in 1..Len(chars) |->
        IF chars[i] >= 65 /\ chars[i] <= 90 THEN chars[i] + 32 ELSE chars[i]]

\* word in chars
Contains(chars, word) ==
    \E i \in 0..(Len(chars) - Len(word)) :
       \A j \in 1..Len(word) : chars[i + j] = word[j]

\* "password", "secret", "token", "key", "authorization", "senha"
SecretKeys ==
    { <<112, 97, 115, 115, 119, 111, 114, 100>>, <<115, 101, 99, 114, 101, 116>>, <<116, 111, 107, 101, 110>>, <<107, 101, 121>>, <<97, 117, 116, 104, 111, 114, 105, 122, 97, 116, 105, 111, 110>>, <<115, 101, 110, 104, 97>> }

Masked      == Str(<<42, 42, 42, 32, 77, 65, 83, 75, 69, 68, 32, 42, 42, 42>>)        \* "*** MASKED ***"
DepthLimit  == Str(<<42, 42, 42, 32, 68, 69, 80, 84, 72, 32, 76, 73, 77, 73, 84, 32, 42, 42, 42>>)         \* "*** DEPTH LIMIT ***"
Truncated   == <<46, 46, 46, 32, 84, 82, 85, 78, 67, 65, 84, 69, 68>>              \* "... TRUNCATED"
TypeName    == Str(<<60, 111, 98, 106, 101, 99, 116, 62>>)        \* f"<{type(data).__name__}>"

\* any(secret_key in k_lower for secret_key in [...])
IsSecretKey(key) ==
    \E secret_key \in SecretKeys : Contains(Lower(key), secret_key)

RECURSIVE SanitizeLogData(_, _)
\* sanitize_log_data(data, depth)
SanitizeLogData(data, depth) ==
    IF depth > MaxDepth THEN DepthLimit
    ELSE IF data.type = "dict"
    THEN Dict([i \in 1..Len(data.items) |->
                 Entry(data.items[i].key,
                       IF IsSecretKey(data.items[i].key) THEN Masked
                       ELSE SanitizeLogData(data.items[i].value, depth + 1))])
    ELSE IF data.type = "list"
    THEN List([i \in 1..(IF Len(data.items) > MaxListLength THEN MaxListLength
                         ELSE Len(data.items)) |->
                 SanitizeLogData(data.items[i], depth + 1)])
    ELSE IF data.type \in {"str", "bytes"} /\ Len(data.chars) > MaxStringLength
    THEN Str(SubSeq(data.chars, 1, MaxStringLength) \o Truncated)
    ELSE IF data.type \in {"str", "int", "float", "bool", "NoneType"}
    THEN data
    ELSE TypeName

NotSanitized == [called |-> FALSE, input |-> Scalar("NoneType"), output |-> Scalar("NoneType")]

\* sanitized_params = sanitize_log_data(params); a call depends on no earlier
\* call, so a behaviour holds one
Sanitize(params) ==
    /\ ~ sanit.called
    /\ sanit' = [called |-> TRUE, input |-> params, output |-> SanitizeLogData(params, 0)]
    /\ UNCHANGED <<listener, notifier, worker, laterVars>>
    /\ UNCHANGED <<now, audit, events, channel>>
    /\ UNCHANGED gatewayVars
    /\ UNCHANGED salesVars
    /\ UNCHANGED deliveryVars
    /\ UNCHANGED fanoutVars
    /\ UNCHANGED registryVars

\* ---- the inputs ----
Chars(n, code) == [i \in 1..n |-> code]

\* keys: "password", "API_KEY", "Authorization", "user_token", "name", and a
\* key of 501 characters
InputKeys ==
    { <<112, 97, 115, 115, 119, 111, 114, 100>>, <<65, 80, 73, 95, 75, 69, 89>>, <<65, 117, 116, 104, 111, 114, 105, 122, 97, 116, 105, 111, 110>>, <<117, 115, 101, 114, 95, 116, 111, 107, 101, 110>>, <<110, 97, 109, 101>>,
      Chars(MaxStringLength + 1, 110) }

\* values without a container inside: strings of 3, 500 and 501 characters,
\* the other scalars, an object, lists of 50 and 51 elements
InputLeaves ==
    { Str(Chars(3, 120)), Str(Chars(MaxStringLength, 120)),
      Str(Chars(MaxStringLength + 1, 120)),
      [type |-> "bytes", chars |-> Chars(MaxStringLength + 1, 120), items |-> <<>>],
      Scalar("int"), Scalar("NoneType"), Scalar("datetime"),
      List([i \in 1..MaxListLength |-> Scalar("int")]),
      List([i \in 1..(MaxListLength + 1) |-> Scalar("int")]) }

\* one-key dicts over the leaves
InputDicts == { Dict(<<Entry(k, v)>>) : k \in InputKeys, v \in InputLeaves }

RECURSIVE Nest(_, _, _)
\* value wrapped n times, in lists or in dicts under the key "name"
Nest(value, n, in_list) ==
    IF n = 0 THEN value
    ELSE IF in_list THEN List(<<Nest(value, n - 1, in_list)>>)
    ELSE Dict(<<Entry(<<110, 97, 109, 101>>, Nest(value, n - 1, in_list))>>)

\* the dicts at nesting depths 0 .. MaxDepth + 1
SanitizerInputs ==
    { Nest(d, n, in_list) : d \in InputDicts, n \in 0..(MaxDepth + 1),
                            in_list \in BOOLEAN }

\* the variables of the subsystems above
earlierVars ==
    <<now, audit, events, channel, gatewayVars, salesVars, deliveryVars,
      fanoutVars, registryVars, listener, notifier, worker, sanit>>

(***************************************************************************)
(* People: PeopleService and PeopleRepository over the profiles collection. *)
(* An identifier is a string or None (the field is not in the document); a  *)
(* name is [null, chars], chars being the character codes of a str.         *)
(***************************************************************************)
MaxProfiles == 2         \* documents of the profiles collection

NullName == [null |-> TRUE, chars |-> <<>>]
Name(chars) == [null |-> FALSE, chars |-> chars]

\* truth value of an Optional[str]
Truthy(name) == ~name.null /\ name.chars # <<>>

RECURSIVE LStrip(_)
LStrip(chars) ==
    IF chars # <<>> /\ Head(chars) = 32 THEN LStrip(Tail(chars)) ELSE chars

RECURSIVE RStrip(_)
RStrip(chars) ==
    IF chars # <<>> /\ chars[Len(chars)] = 32
    THEN RStrip(SubSeq(chars, 1, Len(chars) - 1)) ELSE chars

\* str.strip(), spaces being the whitespace of the names used
Strip(chars) == RStrip(LStrip(chars))

\* f"{first} {last or ''}".strip()
JoinNames(first, last) ==
    Name(Strip(first.chars \o <<32>> \o (IF Truthy(last) THEN last.chars ELSE <<>>)))

\* full_name of a created profile: the service sets it when first_name is
\* truthy, the repository derives it again when it is still falsy; without a
\* first_name the document has no full_name
FullNameOnCreate(first, last) ==
    IF Truthy(first) THEN JoinNames(first, last) ELSE NullName

\* full_name written by an update that has first_name or last_name in its data
FullNameOnUpdate(first, last) ==
    IF Truthy(first) THEN JoinNames(first, last)
    ELSE IF Truthy(last) THEN last
    ELSE NullName

\* unique=True of _ensure_indexes, in the order of creation
UniqueIndexes == <<"whatsapp_id", "email">>

\* the unique indexes a document violates: the field is in the document and
\* another document has the same value
DuplicateKeys(profiles, doc, self) ==
    { f \in people.unique :
        /\ doc[f] # None
        /\ \E j \in (1..Len(profiles)) \ {self} : profiles[j][f] = doc[f] }

NoPeople ==
    [ profiles |-> <<>>, unique |-> {},
      last |-> [op |-> "none", error |-> None, field |-> None, status_code |-> 0] ]

PeopleFrame ==
    /\ UNCHANGED earlierVars
    /\ UNCHANGED <<cloud, memory, tool>>

\* PeopleRepository._ensure_indexes: create_index raises when the collection
\* holds duplicates of the field; the exception is logged and the indexes
\* after it are not created
EnsureIndexes ==
    /\ people.unique # {"whatsapp_id", "email"}
    /\ LET Dup(f) == \E i, j \in 1..Len(people.profiles) :
                         /\ i # j
                         /\ people.profiles[i][f] # None
                         /\ people.profiles[i][f] = people.profiles[j][f]
           made == IF Dup(UniqueIndexes[1]) THEN {}
                   ELSE IF Dup(UniqueIndexes[2]) THEN {UniqueIndexes[1]}
                   ELSE {UniqueIndexes[1], UniqueIndexes[2]}
       IN  people' = [people EXCEPT !.unique = @ \cup made,
                                    !.last = [op |-> "ensure_indexes", error |-> None,
                                              field |-> None, status_code |-> 0]]
    /\ PeopleFrame

\* PeopleService.create_profile with PeopleRepository.create_profile
CreateProfile(profile_in) ==
    /\ Len(people.profiles) < MaxProfiles
    /\ LET doc == [ email |-> profile_in.email,
                    whatsapp_id |-> profile_in.whatsapp_id,
                    user_id |-> profile_in.user_id,
                    first_name |-> profile_in.first_name,
                    last_name |-> profile_in.last_name,
                    full_name |-> FullNameOnCreate(profile_in.first_name,
                                                   profile_in.last_name) ]
           dup == DuplicateKeys(people.profiles, doc, 0)
       IN  IF dup = {}
           THEN people' = [people EXCEPT
                              !.profiles = Append(@, doc),
                              !.last = [op |-> "create", error |-> None,
                                        field |-> None, status_code |-> 0]]
           ELSE \E f \in dup :
                   people' = [people EXCEPT
                                 !.last = [op |-> "create",
                                           error |-> "DuplicateProfileError",
                                           field |-> f, status_code |-> 0]]
    /\ PeopleFrame

\* PeopleService.update_profile with PeopleRepository.update_profile;
\* profile_in holds Unset for a field that is not set
UpdateProfile(i, profile_in) ==
    /\ i \in 1..Len(people.profiles)
    /\ \/ profile_in.email # Unset
       \/ profile_in.first_name.set
       \/ profile_in.last_name.set
    /\ LET existing_profile == people.profiles[i]
           first == IF profile_in.first_name.set THEN profile_in.first_name.value
                    ELSE existing_profile.first_name
           last  == IF profile_in.last_name.set THEN profile_in.last_name.value
                    ELSE existing_profile.last_name
           doc == [ existing_profile EXCEPT
                      !.email = IF profile_in.email # Unset THEN profile_in.email ELSE @,
                      !.first_name = first,
                      !.last_name = last,
                      !.full_name = IF profile_in.first_name.set \/ profile_in.last_name.set
                                    THEN FullNameOnUpdate(first, last) ELSE @ ]
           dup == DuplicateKeys(people.profiles, doc, i)
       IN  IF dup = {}
           THEN people' = [people EXCEPT
                              !.profiles[i] = doc,
                              !.last = [op |-> "update", error |-> None,
                                        field |-> None, status_code |-> 0]]
           ELSE \E f \in dup :
                   people' = [people EXCEPT
                                 !.last = [op |-> "update", error |-> "HTTPException",
                                           field |-> f, status_code |-> 400]]
    /\ PeopleFrame

\* ---- the inputs ----
Identifiers == {None, "x"}
FirstNames == {NullName, Name(<<65>>)}
LastNames == {NullName, Name(<<66>>)}

ProfileCreates ==
    [ email : Identifiers, whatsapp_id : Identifiers, user_id : Identifiers,
      first_name : FirstNames, last_name : LastNames ]

NameUpdates(names) ==
    {[set |-> FALSE, value |-> NullName]} \cup [set : {TRUE}, value : names]

ProfileUpdates ==
    [ email : {Unset, "x", "y"},
      first_name : NameUpdates(FirstNames), last_name : NameUpdates(LastNames) ]

(***************************************************************************)
(* SemanticLLMExecutor.execute and its handlers.  service, action and       *)
(* bucket_name are strs given by their character codes (<<>> when the key   *)
(* is missing or empty); region and instance_type are strings or Unset.     *)
(***************************************************************************)
MaxCloudCalls == 2       \* provider calls made

EC2 == <<101, 99, 50>>                              \* "ec2"
S3 == <<115, 51>>                                \* "s3"
CREATE_INSTANCES == <<99, 114, 101, 97, 116, 101, 95, 105, 110, 115, 116, 97, 110, 99, 101, 115>>    \* "create_instances"
CREATE_BUCKET == <<99, 114, 101, 97, 116, 101, 95, 98, 117, 99, 107, 101, 116>>          \* "create_bucket"

\* self.execution_map, with boto3 installed
ExecutionMap == { <<EC2, CREATE_INSTANCES>>, <<S3, CREATE_BUCKET>> }

\* allowed_types
AllowedTypes == {"t3.micro", "t3.small"}

\* params.get("region", "us-east-1")
RegionOf(params) == IF params.region = Unset THEN "us-east-1" ELSE params.region

ProviderCall(api, region, instance_type, bucket_name) ==
    [api |-> api, region |-> region, instance_type |-> instance_type,
     bucket_name |-> bucket_name]

\* _exec_ec2_create: the exception raised before the provider is called, or the call
ExecEc2Create(params) ==
    IF params.instance_type \notin AllowedTypes
    THEN [raises |-> "ValueError", calls |-> <<>>]
    ELSE [raises |-> None,
          calls |-> <<ProviderCall("ec2.run_instances", RegionOf(params),
                                   params.instance_type, <<>>)>>]

\* _exec_s3_create_bucket
ExecS3CreateBucket(params) ==
    IF params.bucket_name = <<>>
    THEN [raises |-> "ValueError", calls |-> <<>>]
    ELSE [raises |-> None,
          calls |-> <<ProviderCall("s3.create_bucket", RegionOf(params),
                                   Unset, params.bucket_name)>>]

NoCloud == [calls |-> <<>>, status |-> None]

\* SemanticLLMExecutor.execute(interpreted_payload); provider_error: boto3 raises
Execute(interpreted_payload, dry_run, provider_error) ==
    /\ Len(cloud.calls) < MaxCloudCalls
    /\ LET service == interpreted_payload.service
           action  == interpreted_payload.action
           params  == interpreted_payload.params
           key     == <<Lower(service), Lower(action)>>
           handled == IF key[1] = EC2 THEN ExecEc2Create(params)
                      ELSE ExecS3CreateBucket(params)
       IN  IF service = <<>> \/ action = <<>> THEN
              cloud' = [cloud EXCEPT !.status = "error"]
           ELSE IF <<key[1], key[2]>> \notin ExecutionMap THEN
              cloud' = [cloud EXCEPT !.status = "error"]
           ELSE IF dry_run THEN
              cloud' = [cloud EXCEPT !.status = "dry_run"]
           ELSE
              cloud' = [cloud EXCEPT
                          !.calls = @ \o handled.calls,
                          !.status = IF handled.raises # None \/ provider_error
                                     THEN "error" ELSE "success"]
    /\ UNCHANGED earlierVars
    /\ UNCHANGED <<people, memory, tool>>

\* ---- the payloads the LLM may return ----
\* "", "ec2", "EC2", "s3", "lambda"
LlmServices == { <<>>, EC2, <<69, 67, 50>>, S3, <<108, 97, 109, 98, 100, 97>> }
\* "", "create_instances", "create_bucket", "Create_Bucket", "terminate_instances"
LlmActions == { <<>>, CREATE_INSTANCES, CREATE_BUCKET, <<67, 114, 101, 97, 116, 101, 95, 66, 117, 99, 107, 101, 116>>, <<116, 101, 114, 109, 105, 110, 97, 116, 101, 95, 105, 110, 115, 116, 97, 110, 99, 101, 115>> }
\* bucket names "", "logs-1", "My_Bucket", "ab"
LlmParams ==
    [ instance_type : {Unset, "t3.micro", "t3.small", "p4d.24xlarge"},
      region : {Unset, "us-east-1", "eu-west-1", "not-a-region"},
      bucket_name : { <<>>, <<108, 111, 103, 115, 45, 49>>, <<77, 121, 95, 66, 117, 99, 107, 101, 116>>, <<97, 98>> } ]
InterpretedPayloads == [ service : LlmServices, action : LlmActions, params : LlmParams ]

(***************************************************************************)
(* Chat memory (services/memory_service.py): the HybridMemory of one chat. *)
(* docs is the chat's part of the chat_messages collection in insertion    *)
(* order, the position standing for _id; cache is the Redis list of the    *)
(* chat, head first, each item the document as it was serialised when it   *)
(* was inserted. The clock reads n + 1 when n documents are stored.        *)
(***************************************************************************)
MaxMessages == 3         \* documents of the chat
MaxLimit == 3            \* largest limit asked for
MaxRedisHistory == 20    \* settings.MEMORY_REDIS_MAX_HISTORY

\* a string that ObjectId.is_valid rejects
NotAnObjectId == 0

MinOf(a, b) == IF a < b THEN a ELSE b
Reverse(s) == [i \in 1..Len(s) |-> s[Len(s) + 1 - i]]

\* Redis list commands; an empty list is a key that does not exist
LPush(list, item) == <<item>> \o list
LRange(list, start, stop) == SubSeq(list, start + 1, MinOf(stop + 1, Len(list)))
LTrim(list, start, stop) == LRange(list, start, stop)

NoMemory ==
    [ docs |-> <<>>, cache |-> <<>>, forgotten |-> {},
      last |-> [op |-> None, limit |-> 0, answer |-> <<>>, served |-> None,
                result |-> None, mongo_error |-> FALSE] ]

\* add_message: validate, insert into MongoDB, then push on the cache
AddMessage(message_data, mongo_error, redis_client, cache_error) ==
    /\ Len(memory.docs) < MaxMessages
    /\ LET timestamp == IF message_data.has_timestamp THEN message_data.timestamp
                        ELSE Len(memory.docs) + 1
           inserted_id == Len(memory.docs) + 1
           doc == [id |-> inserted_id, timestamp |-> timestamp, is_forgotten |-> FALSE]
           failed == [memory.last EXCEPT !.op = "add_message", !.limit = 0,
                         !.answer = <<>>, !.served = None, !.result = None,
                         !.mongo_error = mongo_error]
       IN  IF ~ message_data.valid \/ mongo_error
           THEN memory' = [memory EXCEPT !.last = failed]
           ELSE memory' =
                  [memory EXCEPT
                     !.docs = Append(@, doc),
                     !.cache = IF redis_client /\ ~ cache_error
                               THEN LTrim(LPush(@, doc), 0, MaxRedisHistory - 1)
                               ELSE @,
                     !.last = [failed EXCEPT !.result = "doc"]]
    /\ UNCHANGED earlierVars
    /\ UNCHANGED <<people, cloud, tool>>

\* the TTL of the chat's key runs out
KeyExpires ==
    /\ memory.cache # <<>>
    /\ memory' = [memory EXCEPT !.cache = <<>>]
    /\ UNCHANGED earlierVars
    /\ UNCHANGED <<people, cloud, tool>>

\* forget_message: soft delete in MongoDB
ForgetMessage(message_id, mongo_error) ==
    /\ LET matched == message_id # NotAnObjectId /\ ~ mongo_error
                        /\ message_id \in 1..Len(memory.docs)
       IN  memory' =
             [memory EXCEPT
                !.docs = IF matched THEN [@ EXCEPT ![message_id].is_forgotten = TRUE]
                         ELSE @,
                !.forgotten = IF matched THEN @ \cup {message_id} ELSE @,
                !.last = [op |-> "forget_message", limit |-> 0, answer |-> <<>>,
                          served |-> None,
                          result |-> IF matched THEN "true" ELSE "false",
                          mongo_error |-> mongo_error]]
    /\ UNCHANGED earlierVars
    /\ UNCHANGED <<people, cloud, tool>>

NotForgotten(docs) == {i \in 1..Len(docs) : ~ docs[i].is_forgotten}

\* find({chat_id, is_forgotten: {$ne: True}}).sort("timestamp", -1).limit(limit):
\* the results MongoDB may give, documents of equal timestamp in any order
Find(docs, limit) ==
    LET ids == NotForgotten(docs)
        k == MinOf(limit, Cardinality(ids))
    IN  {s \in [1..k -> ids] :
           /\ \A a, b \in 1..k :
                a < b => /\ s[a] # s[b]
                         /\ docs[s[a]].timestamp >= docs[s[b]].timestamp
           /\ \A i \in ids :
                (\A a \in 1..k : s[a] # i)
                  => \A a \in 1..k : docs[i].timestamp <= docs[s[a]].timestamp}

\* get_recent_messages: the cache when it answers, MongoDB otherwise
GetRecentMessages(limit, redis_client, cache_error, mongo_error) ==
    /\ LET raw_history == LRange(memory.cache, 0, limit - 1)
           answered(messages, served) ==
               memory' = [memory EXCEPT
                  !.last = [op |-> "get_recent_messages", limit |-> limit,
                            answer |-> messages, served |-> served,
                            result |-> "list", mongo_error |-> mongo_error]]
       IN  IF limit <= 0 THEN answered(<<>>, None)
           ELSE IF redis_client /\ ~ cache_error /\ raw_history # <<>>
           THEN answered(Reverse([i \in 1..Len(raw_history) |-> raw_history[i].id]), "cache")
           ELSE IF mongo_error THEN answered(<<>>, "mongo")
           ELSE \E s \in Find(memory.docs, limit) : answered(Reverse(s), "mongo")
    /\ UNCHANGED earlierVars
    /\ UNCHANGED <<people, cloud, tool>>

\* messages with the timestamp left to the service or set by the caller
MessageInputs ==
    [valid : BOOLEAN, has_timestamp : {FALSE}, timestamp : {0}]
      \cup [valid : {TRUE}, has_timestamp : {TRUE}, timestamp : {0}]

(***************************************************************************)
(* MCP executor (services/mcp_executor.py): execute_mcp_tool and the audit *)
(* log it writes. calls holds one record per invocation with the response  *)
(* and the number of log_audit_event calls it made, audit_log the          *)
(* documents of the audit_log collection. The registry, the permission     *)
(* tables and the handlers are inputs: a tool is registered or not, its    *)
(* allowed roles are a list or None, the handler returns or raises.        *)
(***************************************************************************)
MaxToolCalls == 2        \* invocations of execute_mcp_tool

RegisteredTools == {"files.read"}

NoTool == [calls |-> <<>>, audit_log |-> <<>>]

\* log_audit_event: one insert into audit_log, an error of which is logged only
LogAuditEvent(audit_log, invocation, success, error, write_fails) ==
    IF write_fails THEN audit_log
    ELSE Append(audit_log,
                [invocation |-> invocation, success |-> success, error_message |-> error])

Returned == [kind |-> "return", status_code |-> 200]
RaisedHttp(status_code) == [kind |-> "HTTPException", status_code |-> status_code]
Raised(kind) == [kind |-> kind, status_code |-> 0]

\* 'e' in locals() when the finally clause runs: the target of 'except ... as e'
\* is unbound at the end of its clause, and no clause ran after a return
ExceptTargetBound == FALSE

\* steps 1 to 4 of the try block: what it ends with
TryBlock(tool_name, current_user, allowed_roles, missing_param, handler_outcome) ==
    IF tool_name \notin RegisteredTools THEN RaisedHttp(404)
    ELSE IF ~ current_user.present /\ allowed_roles.listed THEN RaisedHttp(401)
    ELSE IF current_user.present /\ ~ allowed_roles.listed THEN Raised("TypeError")
    ELSE IF current_user.present /\ allowed_roles.roles \cap current_user.roles = {}
    THEN RaisedHttp(403)
    ELSE IF missing_param THEN RaisedHttp(422)
    ELSE handler_outcome

\* execute_mcp_tool: the try block, the except clause it ends in, the finally
\* clause; audit_errors are the log_audit_event calls whose insert fails
ExecuteMcpTool(tool_name, current_user, allowed_roles, missing_param, handler_outcome, audit_errors) ==
    /\ Len(tool.calls) < MaxToolCalls
    /\ LET invocation == Len(tool.calls) + 1
           ended == TryBlock(tool_name, current_user, allowed_roles, missing_param,
                             handler_outcome)
           audit_success == ended.kind = "return"
           audit_error == IF audit_success THEN None ELSE ended.kind
           unexpected == ended.kind \notin
                           {"return", "HTTPException", "IntegrationError", "RepositoryError"}
           status_code ==
               CASE ended.kind \in {"return", "HTTPException"} -> ended.status_code
                 [] ended.kind \in {"IntegrationError", "RepositoryError"} -> 503
                 [] OTHER -> 500
           in_except ==
               IF unexpected
               THEN LogAuditEvent(tool.audit_log, invocation, audit_success,
                                  audit_error, 1 \in audit_errors)
               ELSE tool.audit_log
           in_finally == ~ ExceptTargetBound \/ ended.kind # "HTTPException"
           attempts == (IF unexpected THEN 1 ELSE 0) + (IF in_finally THEN 1 ELSE 0)
       IN  tool' =
             [tool EXCEPT
                !.audit_log =
                    IF in_finally
                    THEN LogAuditEvent(in_except, invocation, audit_success, audit_error,
                                       attempts \in audit_errors)
                    ELSE in_except,
                !.calls = Append(@,
                    [ended |-> ended.kind, success |-> audit_success,
                     status_code |-> status_code, attempts |-> attempts,
                     audit_errors |-> audit_errors \cap 1..attempts])]
    /\ UNCHANGED earlierVars
    /\ UNCHANGED <<people, cloud, memory>>

ToolNames == RegisteredTools \cup {"files.shred"}
McpUsers ==
    {[present |-> FALSE, roles |-> {}]}
      \cup [present : {TRUE}, roles : {{}, {"admin"}, {"user"}}]
AllowedRoles ==
    {[listed |-> FALSE, roles |-> {}]} \cup [listed : {TRUE}, roles : {{"admin"}}]
HandlerOutcomes ==
    {Returned, RaisedHttp(400), Raised("IntegrationError"), Raised("RepositoryError"),
     Raised("ValueError")}


(***************************************************************************)
(* Specifications                                                          *)
(***************************************************************************)
InitStoresExceptDeliveries ==
    /\ gwLog = [g \in GatewaySlots |-> NoRequest]
    /\ now = 0
    /\ products = InitProducts
    /\ sales = <<>>
    /\ req = [r \in ReqIds |-> IdleReq]
    /\ audit = <<>>
    /\ events = <<>>
    /\ call = [c \in CallIds |-> IdleCall]
    /\ channel = <<>>
    /\ tasks = <<>>
    /\ down = {}
    /\ received = [u \in Subscribers |-> <<>>]
    /\ cursor = 0
    /\ regCalls = [k \in RegSlots |-> NoRegCall]
    /\ listener = NoListener
    /\ notifier = NoNotifier
    /\ worker = NoWorker
    /\ sanit = NotSanitized
    /\ people = NoPeople
    /\ cloud = NoCloud
    /\ memory = NoMemory
    /\ tool = NoTool

InitStores ==
    /\ InitStoresExceptDeliveries
    /\ deliveries \in [DeliveryIds -> {NewDelivery(None), NewDelivery("cour1")}]

SalesStep ==
    \/ \E r \in ReqIds, q \in SalesRequests :
          CallSalesAgent(r, q.action, q.data, q.context)
    \/ \E r \in ReqIds : SalesAgentExecute(r)
    \/ \E r \in ReqIds, repo_ok \in BOOLEAN : CheckDuplicateSale(r, repo_ok)
    \/ \E r \in ReqIds : AllocateStockRead(r)
    \/ \E r \in ReqIds : AllocateStockUpdate(r)
    \/ \E r \in ReqIds, outcome \in InsertOutcomes : InsertSale(r, outcome)
    \/ \E r \in ReqIds : TriggerPostSaleActions(r)

DeliveryStep ==
    \/ \E c \in CallIds, q \in DeliveryRequests :
          CallDeliveryAgent(c, q.action, q.data, q.context)
    \/ \E c \in CallIds : DeliveryAgentExecute(c)
    \/ \E c \in CallIds : UpdateDeliveryStatusWrite(c)
    \/ \E c \in CallIds : UpdateCourierLocationWrite(c)

\* POST /mcp/exec requests
InitGateway == InitStores /\ salesSlots = {} /\ sequential = FALSE /\ delivSlots = {}
NextGateway ==
    \E g \in GatewaySlots, p \in Principals, h \in TraceHeaders,
       ctx \in RequestContexts, o \in RegistryOutcomes :
          ExecuteMcpAction(g, p, h, ctx, o)
SpecGateway == InitGateway /\ [][NextGateway]_vars

\* concurrent create_sale requests
InitSales == InitStores /\ salesSlots = ReqIds /\ sequential = FALSE /\ delivSlots = {}
NextSales == SalesStep
SpecSales == InitSales /\ [][NextSales]_vars

\* create_sale requests issued one after the other
InitSalesSeq == InitStores /\ salesSlots = ReqIds /\ sequential = TRUE /\ delivSlots = {}
NextSalesSeq ==
    \/ SalesStep
    \/ \E id \in 1..MaxReq, st \in {"cancelled", "completed"}, built_at \in 0..now :
          UpdateSaleStatus(id, st, [status |-> st, timestamp |-> built_at,
                                    actor_id |-> "system"])
    \/ Tick
SpecSalesSeq == InitSalesSeq /\ [][NextSalesSeq]_vars

\* delivery calls
InitDelivery == InitStores /\ salesSlots = {} /\ sequential = FALSE /\ delivSlots = CallIds
NextDelivery == DeliveryStep \/ Tick
SpecDelivery == InitDelivery /\ [][NextDelivery]_vars

\* one SalesAgent.execute call and one DeliveryAgent.execute call
InitAgents ==
    /\ InitStoresExceptDeliveries
    /\ deliveries \in [DeliveryIds -> {NewDelivery(None), InTransitDelivery}]
    /\ salesSlots = {1}
    /\ sequential = FALSE
    /\ delivSlots = {1}
NextAgents == SalesStep \/ DeliveryStep
SpecAgents == InitAgents /\ [][NextAgents]_vars

\* calls of the registry
InitRegistry == InitStores /\ salesSlots = {} /\ sequential = FALSE /\ delivSlots = {}
NextRegistry ==
    \E k \in RegSlots, n \in AgentNames, o \in AgentOutcomes :
       ExecuteAgentAction(k, n, o)
SpecRegistry == InitRegistry /\ [][NextRegistry]_vars

\* create_sale requests issued one after the other while the collaborators of
\* the post-sale fan-out fail and recover
InitFanout == InitStores /\ salesSlots = ReqIds /\ sequential = TRUE /\ delivSlots = {}
NextFanout ==
    \/ SalesStep
    \/ \E c \in Collaborators : Fail(c)
    \/ \E c \in Collaborators : Recover(c)
SpecFanout == InitFanout /\ [][NextFanout]_vars

\* one create_sale request and competing writers of the products
InitAlloc ==
    /\ InitStores
    /\ salesSlots = {1}
    /\ sequential = FALSE
    /\ delivSlots = {}
NextAlloc ==
    \/ SalesStep
    \/ \E sku \in Skus, delta \in {-1, 0, 1} : CompetingWrite(sku, delta)
SpecAlloc == InitAlloc /\ [][NextAlloc]_vars

\* the same, the coroutine of the request being scheduled again whenever it
\* can take a step (the event loop resumes a coroutine whose await completed)
SpecAllocFair ==
    /\ SpecAlloc
    /\ WF_vars(\E r \in ReqIds : AllocateStockRead(r))
    /\ WF_vars(\E r \in ReqIds : AllocateStockUpdate(r))

\* payloads on the channel and the listener routing them to the subscribers
InitBroadcast == InitStores /\ salesSlots = {} /\ sequential = FALSE /\ delivSlots = {}
ListenerStep ==
    \/ StartWebsocketListener
    \/ ListenerConnect
    \/ WebsocketRedisListenerLoop
    \/ ListenerDisconnected
    \/ ListenerWake
StopStep ==
    \/ StopWebsocketListener
    \/ StopTimeout
    \/ StopJoin
    \/ OrphanEnds
NextBroadcast ==
    \/ \E payload \in ChannelPayloads : PublishPayload(payload)
    \/ ListenerStep
    \/ Fail("broker")
    \/ Recover("broker")
SpecBroadcast == InitBroadcast /\ [][NextBroadcast]_vars

\* the listener task with broker outages and stop_websocket_listener
NextListener ==
    \/ PublishPayload(WebsocketUpdate("all", "sales_dashboard", "sale_created", [id |-> 1]))
    \/ ListenerStep
    \/ StopStep
    \/ Fail("broker")
    \/ Recover("broker")
SpecListener == InitBroadcast /\ [][NextListener]_vars

\* the event loop runs every task that can make a step, a sleep ends, the
\* timeout of wait_for expires
SpecListenerFair ==
    /\ SpecListener
    /\ WF_vars(ListenerConnect)
    /\ WF_vars(WebsocketRedisListenerLoop)
    /\ WF_vars(ListenerDisconnected)
    /\ WF_vars(ListenerWake)
    /\ WF_vars(StopTimeout)
    /\ WF_vars(StopJoin)

\* services publishing WebSocket updates while the broker fails and recovers
NextPublish ==
    \/ \E payload \in ChannelPayloads, kind \in DataKinds, client_error, timeout \in BOOLEAN :
          PublishWebsocketUpdate(payload, kind, client_error, timeout)
    \/ Fail("broker")
    \/ Recover("broker")
SpecPublish == InitBroadcast /\ [][NextPublish]_vars

\* the worker executing task messages, each execution succeeding or raising
NextWorker ==
    \/ \E task_name \in TaskNames : SendTask(task_name)
    \/ \E i \in 1..MaxTasks, raises \in BOOLEAN : RunTask(i, raises)
SpecWorker == InitBroadcast /\ [][NextWorker]_vars

\* a queued message is eventually executed
SpecWorkerFair ==
    /\ SpecWorker
    /\ \A i \in 1..MaxTasks : WF_vars(\E raises \in BOOLEAN : RunTask(i, raises))

\* calls through the registry in which the agent's service raises an error
NextErrors ==
    \E k \in RegSlots, error \in ServiceErrors : ExecuteAgentActionServiceError(k, error)
SpecErrors == InitRegistry /\ [][NextErrors]_vars

\* sanitize_log_data applied to the inputs
NextSanitizer == \E params \in SanitizerInputs : Sanitize(params)
SpecSanitizer == InitBroadcast /\ [][NextSanitizer]_vars

\* profile creates and updates, with the indexes ensured at any moment or never
NextPeople ==
    \/ EnsureIndexes
    \/ \E profile_in \in ProfileCreates : CreateProfile(profile_in)
    \/ \E i \in 1..MaxProfiles, profile_in \in ProfileUpdates : UpdateProfile(i, profile_in)
SpecPeople == InitBroadcast /\ [][NextPeople]_vars

\* the semantic executor fed with whatever the LLM returns
NextCloud ==
    \E interpreted_payload \in InterpretedPayloads, dry_run, provider_error \in BOOLEAN :
       Execute(interpreted_payload, dry_run, provider_error)
SpecCloud == InitBroadcast /\ [][NextCloud]_vars

\* one chat's memory: messages added, forgotten and read while the cache fails
\* or expires at any moment
NextMemory ==
    \/ \E message_data \in MessageInputs, mongo_error, redis_client, cache_error \in BOOLEAN :
          AddMessage(message_data, mongo_error, redis_client, cache_error)
    \/ KeyExpires
    \/ \E message_id \in 0..MaxMessages, mongo_error \in BOOLEAN :
          ForgetMessage(message_id, mongo_error)
    \/ \E limit \in 0..MaxLimit, redis_client, cache_error, mongo_error \in BOOLEAN :
          GetRecentMessages(limit, redis_client, cache_error, mongo_error)
SpecMemory == InitBroadcast /\ [][NextMemory]_vars

\* tool invocations by any caller, the audit collection failing at any write
NextTool ==
    \E tool_name \in ToolNames, current_user \in McpUsers, allowed_roles \in AllowedRoles,
       missing_param \in BOOLEAN, handler_outcome \in HandlerOutcomes,
       audit_errors \in SUBSET (1..2) :
       ExecuteMcpTool(tool_name, current_user, allowed_roles, missing_param,
                      handler_outcome, audit_errors)
SpecTool == InitBroadcast /\ [][NextTool]_vars

Spec == SpecSales

(***************************************************************************)
(* Properties                                                              *)
(***************************************************************************)
\* C1: the execution context of every handled /mcp/exec request carries the
\* Principal's user_id as agent_id and user_id, the Principal's roles, and the
\* request's trace id (the X-Trace-ID header, else the generated one), whatever
\* the caller's context says; two handled requests by the same Principal with
\* the same trace header agree on the four fields.
C1_AuthoritativeContext ==
    /\ \A g \in GatewaySlots : gwLog[g].handled =>
          /\ gwLog[g].exec_context.agent_id = gwLog[g].principal.user_id
          /\ gwLog[g].exec_context.user_id = gwLog[g].principal.user_id
          /\ gwLog[g].exec_context.roles = gwLog[g].principal.roles
          /\ gwLog[g].exec_context.trace_id = gwLog[g].x_trace_id
          /\ gwLog[g].header # None => gwLog[g].exec_context.trace_id = gwLog[g].header
          /\ gwLog[g].header = None => gwLog[g].exec_context.trace_id = "uuid4"
    /\ \A g, h \in GatewaySlots :
          ( /\ gwLog[g].handled /\ gwLog[h].handled
            /\ gwLog[g].principal = gwLog[h].principal
            /\ gwLog[g].header = gwLog[h].header )
          => \A f \in {"agent_id", "user_id", "roles", "trace_id"} :
                gwLog[g].exec_context[f] = gwLog[h].exec_context[f]

\* two requests by u1 with the same header: one spoofs every field, one sends
\* no context
C1_Witness ==
    /\ gwLog["first"].handled /\ gwLog["second"].handled
    /\ gwLog["first"].principal = gwLog["second"].principal
    /\ gwLog["first"].principal.user_id = "u1"
    /\ gwLog["first"].header = gwLog["second"].header
    /\ gwLog["first"].context.present
    /\ gwLog["first"].context.value.roles = {"admin"}
    /\ gwLog["first"].context.value.agent_id = "u2"
    /\ gwLog["first"].context.value.user_id = "u2"
    /\ gwLog["first"].context.value.trace_id = "t-spoof"
    /\ ~gwLog["second"].context.present

\* ---- sales ----
\* errors create_sale raises inside its transaction block
TransactionErrors ==
    {"ProductNotFoundError", "InsufficientStockError", "SaleCreationError"}

\* C2: a create_sale call that ends with an error raised during allocation or
\* insertion leaves every product as it was before the call and adds no Sale.
C2_AbortRestoresStore ==
    [][ \A r \in salesSlots :
          ( /\ req[r].pc # "done" /\ req'[r].pc = "done"
            /\ req'[r].error \in TransactionErrors )
          => /\ products' = req[r].stock_before
             /\ Len(sales') = req[r].sales_before ]_vars

RECURSIVE QuantityOf(_, _)
\* total quantity of sku in a list of items
QuantityOf(items, sku) ==
    IF items = <<>> THEN 0
    ELSE (IF Head(items).sku = sku THEN Head(items).quantity ELSE 0)
         + QuantityOf(Tail(items), sku)

RECURSIVE SoldQuantity(_, _)
\* total quantity of sku in the first n sales of the store
SoldQuantity(n, sku) ==
    IF n = 0 THEN 0 ELSE QuantityOf(sales[n].items, sku) + SoldQuantity(n - 1, sku)

\* no request is between its first allocation and its end
NoSaleInFlight == \A r \in salesSlots : req[r].pc \in {"idle", "called", "done"}

\* available_stock is never negative
StockNeverNegative == \A s \in Skus : products[s].available_stock >= 0

\* C3: once all concurrent requests have finished, each product's stock is its
\* initial value minus the quantities in the persisted sales, and stock is
\* never negative.
C3_StockConservation ==
    /\ StockNeverNegative
    /\ NoSaleInFlight =>
          \A s \in Skus :
              products[s].available_stock =
                  InitProducts[s].available_stock - SoldQuantity(Len(sales), s)

\* the sku:quantity pairs of a stored sale
SoldItems(sale) ==
    [i \in 1..Len(sale.items) |-> Item(sale.items[i].sku, sale.items[i].quantity)]

\* the two item lists hold the same sku:quantity pairs, each as often
SameItemMultiset(a, b) ==
    \A item \in {a[i] : i \in 1..Len(a)} \cup {b[i] : i \in 1..Len(b)} :
        Cardinality({i \in 1..Len(a) : a[i] = item})
            = Cardinality({i \in 1..Len(b) : b[i] = item})

\* a non-cancelled sale with the inputs of `in`, created within the window
RecentSameSale(in) ==
    \E i \in 1..Len(sales) :
        /\ sales[i].agent_id = in.agent_id
        /\ sales[i].client_id = in.client_id
        /\ sales[i].status # "cancelled"
        /\ now - sales[i].created_at <= DuplicateWindow
        /\ SameItemMultiset(SoldItems(sales[i]), in.items)

\* the duplicate check of r ends with DuplicateSaleError and nothing written
RejectedAsDuplicate(r) ==
    /\ req'[r].pc = "done"
    /\ req'[r].error = "DuplicateSaleError"
    /\ req'[r].status_code = 409
    /\ req'[r].allocated = <<>>
    /\ sales' = sales
    /\ products' = products

SameSaleRequest(r, o) ==
    /\ req[r].action = "create_sale" /\ req[o].action = "create_sale"
    /\ req[r].input.agent_id # None
    /\ req[r].input.agent_id = req[o].input.agent_id
    /\ req[r].input.client_id = req[o].input.client_id
    /\ SameItemMultiset(req[r].input.items, req[o].input.items)

C6_IdempotencyKey ==
    \A r, o \in salesSlots :
        ( /\ r # o
          /\ req[r].pc = "done" /\ req[o].pc = "done"
          /\ req[r].input.idempotency_key # None
          /\ req[r].input.idempotency_key = req[o].input.idempotency_key
          /\ req[r].sale_id # 0 )
        => /\ req[o].sale_id = req[r].sale_id
           /\ req[o].doc \in {0, req[r].doc}

\* ---- delivery ----
\* the delivery state graph
Permitted(from, to) ==
    \/ <<from, to>> \in
         { <<"pending_assignment", "assigned">>, <<"assigned", "picking_up">>,
           <<"picking_up", "in_transit">>, <<"in_transit", "near_destination">>,
           <<"near_destination", "delivered">>,
           <<"picking_up", "failed_attempt">>, <<"in_transit", "failed_attempt">>,
           <<"near_destination", "failed_attempt">>,
           <<"failed_attempt", "in_transit">>, <<"failed_attempt", "near_destination">>,
           <<"failed_attempt", "failed_delivery">>,
           <<"near_destination", "failed_delivery">>,
           <<"failed_delivery", "returned">>, <<"assigned", "returned">> }
    \/ (to = "cancelled" /\ from \notin TerminalStatuses)

\* C7: current_status changes only along a permitted transition; an
\* update_status asking for any other transition is answered 409 and leaves
\* the delivery as it was.
C7_PermittedTransitionsOnly ==
    [][ /\ \A d \in DeliveryIds :
              deliveries'[d].current_status # deliveries[d].current_status
              => Permitted(deliveries[d].current_status, deliveries'[d].current_status)
        /\ \A c \in delivSlots :
              ( /\ call[c].pc = "status_write" /\ call'[c].pc = "done"
                /\ call[c].event.status #
                      deliveries[call[c].data.delivery_id].current_status
                /\ ~Permitted(deliveries[call[c].data.delivery_id].current_status,
                              call[c].event.status) )
              => call'[c].status_code = 409 /\ deliveries' = deliveries ]_vars

\* C8: an update_location, and an update_status to delivered or
\* failed_attempt, is written only for a caller with role courier whose id is
\* the delivery's courier_profile_id; a courier with another id gets 403 on
\* update_status and the delivery stays as it was.
C8_AssignedCourierOnly ==
    [][ \A c \in delivSlots :
          /\ ( /\ call[c].pc \in {"status_write", "location_write"}
               /\ call'[c].pc = "done"
               /\ \/ call[c].action = "update_location"
                  \/ call[c].event.status \in {"delivered", "failed_attempt"} )
             => /\ "courier" \in call[c].roles
                /\ call[c].actor_id =
                      deliveries[call[c].data.delivery_id].courier_profile_id
          /\ ( /\ call[c].pc = "status_write" /\ call'[c].pc = "done"
               /\ "courier" \in call[c].roles
               /\ call[c].actor_id #
                      deliveries[call[c].data.delivery_id].courier_profile_id )
             => call'[c].status_code = 403 /\ deliveries' = deliveries ]_vars

\* whenever tracking_history is non-empty, current_status is the status of its
\* last entry
StatusIsLastEntry ==
    \A d \in DeliveryIds :
        LET h == deliveries[d].tracking_history
        IN h # <<>> => deliveries[d].current_status = h[Len(h)].status

\* the write of an accepted update_status call, and any change of the history
TransitionIsAtomic ==
    /\ \A c \in delivSlots :
          (call[c].pc = "status_write" /\ call'[c].pc = "done")
          => LET d == call[c].data.delivery_id
             IN deliveries'[d].tracking_history =
                   Append(deliveries[d].tracking_history, call[c].event)
    /\ \A d \in DeliveryIds :
          LET h  == deliveries[d].tracking_history
              hh == deliveries'[d].tracking_history
              e  == hh[Len(hh)]
          IN hh # h =>
               /\ hh = Append(h, e)
               /\ deliveries'[d].current_status = e.status
               /\ deliveries'[d].updated_at = e.timestamp
               /\ e.status \in TerminalStatuses
                     => deliveries'[d].expire_at = e.timestamp + DeliveryTtl
               /\ e.status \notin TerminalStatuses
                     => deliveries'[d].expire_at = deliveries[d].expire_at

\* C9: every accepted status update is one step that appends exactly one
\* tracking_history entry, sets current_status and updated_at from it and, on a
\* terminal status, expire_at to its timestamp plus the retention period; so
\* under any interleaving current_status is the status of the last entry.
C9_AtomicTransition == []StatusIsLastEntry /\ [][TransitionIsAtomic]_vars

\* two interleaved calls: the one that read the clock later wrote first, and
\* the last write is terminal
C9_Witness ==
    \E d \in DeliveryIds :
        LET h == deliveries[d].tracking_history
        IN /\ Len(h) = 2
           /\ h[1].timestamp > h[2].timestamp
           /\ h[2].status \in TerminalStatuses
           /\ deliveries[d].expire_at = h[2].timestamp + DeliveryTtl
           /\ deliveries[d].current_status = h[2].status

\* ---- agents ----
\* the stores, the audit log and the published events
Stores == <<products, sales, deliveries, audit, events>>

\* the role DeliveryAgent.execute asks for, if any, is missing
CourierRoleMissing(action, data, roles) ==
    /\ \/ action = "update_location"
       \/ action = "update_status" /\ data.status \in {"delivered", "failed_attempt"}
    /\ "courier" \notin roles

\* the step of SalesAgent.execute / DeliveryAgent.execute that decides on r / c
SalesDecides(r) == req[r].pc = "called" /\ req'[r].pc # "called"
DeliveryDecides(c) == call[c].pc = "called" /\ call'[c].pc # "called"

SalesOrder(r) ==
    LET known == req[r].action \in SalesActionSchemas
        valid == SalesPayloadValid(req[r].action, req[r].data)
    IN /\ ~req[r].context.present
             => req'[r].rejected_at = "agent_id" /\ req'[r].status_code = 401
       /\ (req[r].context.present /\ ~known)
             => req'[r].rejected_at = "action" /\ req'[r].status_code = 400
       /\ (req[r].context.present /\ known /\ ~valid)
             => req'[r].rejected_at = "payload" /\ req'[r].status_code = 400
       /\ (req[r].context.present /\ known /\ valid)
             => req'[r].rejected_at = None

\* the order in which DeliveryAgent.execute decides
DeliveryOrder(c) ==
    LET known == call[c].action \in DeliveryActionSchemas
        valid == DeliveryPayloadValid(call[c].action, call[c].data)
        role  == ~CourierRoleMissing(call[c].action, call[c].data, call[c].roles)
    IN /\ ~known => call'[c].rejected_at = "action" /\ call'[c].status_code = 400
       /\ (known /\ ~valid)
             => call'[c].rejected_at = "payload" /\ call'[c].status_code = 400
       /\ (known /\ valid /\ ~role)
             => call'[c].rejected_at = "role" /\ call'[c].status_code = 403
       /\ (known /\ valid /\ role) => call'[c].rejected_at = None

\* a rejected request is finished and has touched nothing
RejectedIsInert ==
    /\ \A r \in salesSlots : req[r].rejected_at # None =>
          /\ req[r].pc = "done" /\ req[r].post = None
          /\ req[r].allocated = <<>> /\ req[r].doc = 0 /\ req[r].sale_id = 0
    /\ \A c \in delivSlots : call[c].rejected_at # None =>
          call[c].pc = "done" /\ call[c].event = NoEvent

C11_RegistryOutcomes ==
    \A k \in RegSlots :
       LET c == regCalls[k]
       IN c # NoRegCall =>
            /\ c.result.kind \in {"return", "AgentExecutionError"}
            /\ c.agent_name \notin RegisteredAgents =>
                  /\ c.agent = NotCalled
                  /\ c.result.kind = "AgentExecutionError"
                  /\ c.result.status_code = 404
            /\ c.agent_name \in RegisteredAgents =>
                  /\ c.agent # NotCalled
                  /\ c.agent.kind = "return" => c.result = c.agent
                  /\ c.agent.kind = "AgentExecutionError" => c.result = c.agent
                  /\ c.agent.kind \notin {"return", "AgentExecutionError"} =>
                        /\ c.result.kind = "AgentExecutionError"
                        /\ c.result.status_code = 500
            /\ c.result.kind = "AgentExecutionError" =>
                  \/ c.agent_name \notin RegisteredAgents
                  \/ c.agent.kind # "return"

\* an agent raised AgentExecutionError 403 with details and another raised an
\* exception that is not an AgentExecutionError
C11_Witness ==
    \E k, l \in RegSlots :
       /\ regCalls[k].agent.kind = "AgentExecutionError"
       /\ regCalls[k].agent.status_code = 403
       /\ regCalls[k].agent.details = "errors"
       /\ regCalls[k].result.status_code = 403
       /\ regCalls[l].agent.kind = "HTTPException"
       /\ regCalls[l].agent.status_code = 404
       /\ regCalls[l].result.status_code = 500

\* C12: the audit log, the published events and the task queue change only
\* in the post-sale step of a create_sale that has returned its sale (status
\* 200, no error, the sale document in the store), and what is appended
\* names that sale; a create_sale that was rejected or aborted never has a
\* post-sale step.
C12_PostSaleStepOfCommittedSale ==
    (audit' # audit \/ events' # events \/ channel' # channel \/ tasks' # tasks) =>
       \E r \in salesSlots :
          /\ req[r].post = "scheduled" /\ req'[r].post = "ran"
          /\ req[r].pc = "done" /\ req[r].error = None /\ req[r].status_code = 200
          /\ req[r].sale_id \in 1..Len(sales)
          /\ sales[req[r].sale_id].agent_id = req[r].input.agent_id
          /\ \A i \in (Len(audit) + 1)..Len(audit') :
                /\ audit'[i].action = "create_sale" /\ audit'[i].success
                /\ audit'[i].entity_id = req[r].sale_id
          /\ \A i \in (Len(events) + 1)..Len(events') :
                /\ events'[i].event_type = "sale_created"
                /\ events'[i].data.sale_id = req[r].sale_id

C12_NoPostSaleStepAfterFailure ==
    \A r \in salesSlots :
       (req[r].error # None \/ req[r].rejected_at # None) => req[r].post = None

C12_SideEffectsAfterCommit ==
    [][C12_PostSaleStepOfCommittedSale]_vars /\ []C12_NoPostSaleStepAfterFailure

\* one create_sale was aborted after allocating stock and another one
\* committed and had its post-sale step: one audit record, one event
C12_Witness ==
    \E r, q \in salesSlots :
       /\ req[r].error = "SaleCreationError" /\ req[r].allocated # <<>>
       /\ req[q].post = "ran" /\ req[q].sale_id \in 1..Len(sales)
       /\ Len(audit) = 1 /\ audit[1].entity_id = req[q].sale_id
       /\ Len(events) = 1 /\ events[1].data.sale_id = req[q].sale_id

\* C13: whatever collaborators are unavailable, the post-sale step of a
\* create_sale leaves the request's result (status 200, no error, the sale id),
\* the Sale documents and the products' stock as they were, and so does a
\* collaborator failing or recovering; a create_sale that returned 200 has its
\* Sale document, with the allocated items, in the store ever after.
C13_FanoutStepKeepsSale ==
    /\ \A r \in salesSlots :
          (req[r].post = "scheduled" /\ req'[r].post = "ran") =>
             /\ req'[r] = [req[r] EXCEPT !.post = "ran"]
             /\ req'[r].status_code = 200 /\ req'[r].error = None
             /\ sales' = sales /\ products' = products
    /\ down' # down => (req' = req /\ sales' = sales /\ products' = products)

C13_ReturnedSalePersisted ==
    \A r \in salesSlots :
       (req[r].action = "create_sale" /\ req[r].status_code = 200) =>
          /\ req[r].sale_id \in 1..Len(sales)
          /\ SoldItems(sales[req[r].sale_id]) = req[r].allocated
          /\ \A i \in 1..Len(req[r].allocated) :
                products[req[r].allocated[i].sku].available_stock
                   <= req[r].stock_before[req[r].allocated[i].sku].available_stock
                        - req[r].allocated[i].quantity

C13_FanoutFailureKeepsSale ==
    [][C13_FanoutStepKeepsSale]_vars /\ []C13_ReturnedSalePersisted

\* the first sale's post-sale step ran with nothing reaching the audit log or
\* the channel; after recovery the second sale's event was published
C13_Witness ==
    \E r, q \in salesSlots :
       /\ req[r].post = "ran" /\ req[r].status_code = 200 /\ req[r].sale_id = 1
       /\ req[q].post = "ran" /\ req[q].status_code = 200 /\ req[q].sale_id = 2
       /\ Len(sales) = 2 /\ Len(events) = 2
       /\ Len(channel) = 1 /\ channel[1].data.sale_id = 2
       /\ Len(audit) = 1 /\ audit[1].entity_id = 2

\* C14: once the post-sale step of a committed create_sale has run with the
\* collaborators available, the audit log holds exactly one create_sale entry
\* for the sale, exactly one sale-created event addressed to sales_dashboard
\* has been published for it, and the task queue holds one sales.sync_banking
\* and one sales.initiate_delivery task for it.
C14_FanOutComplete ==
    \A r \in salesSlots :
       req[r].post = "ran" =>
          LET id == req[r].sale_id
              Entries == {i \in 1..Len(audit) :
                            audit[i].action = "create_sale" /\ audit[i].entity_id = id}
              Published == {i \in 1..Len(channel) :
                              /\ channel[i].event_type \in {"sales.created", "sale_created"}
                              /\ channel[i].target_id = "sales_dashboard"
                              /\ channel[i].data.sale_id = id}
              Enqueued(name) == {i \in 1..Len(tasks) :
                                   tasks[i].name = name /\ tasks[i].sale_id = id}
          IN /\ Cardinality(Entries) = 1
             /\ Cardinality(Published) = 1
             /\ Cardinality(Enqueued("sales.sync_banking")) = 1
             /\ Cardinality(Enqueued("sales.initiate_delivery")) = 1

\* the part of C14 the code keeps: one audit entry and one published event
\* per post-sale step
C14_AuditAndEventOnly ==
    \A r \in salesSlots :
       req[r].post = "ran" =>
          /\ Cardinality({i \in 1..Len(audit) :
                audit[i].action = "create_sale" /\ audit[i].entity_id = req[r].sale_id}) = 1
          /\ Cardinality({i \in 1..Len(channel) :
                channel[i] = SaleCreatedEvent(req[r].sale_id)}) = 1
          /\ tasks = <<>>

\* C15: the conditional update of an allocation decrements the stock, by the
\* item's quantity, only when the product's version is the one the allocation
\* read last; when it is another, nothing is written and the allocation reads
\* again, at most MaxAllocRetries times, after which create_sale ends with
\* InsufficientStockError; whatever the competing writers do, an allocation
\* that has started ends (with the items allocated or with an error).
Allocating(r) == req[r].pc \in {"alloc_read", "alloc_cas"}

C15_ConditionalUpdateStep ==
    \A r \in salesSlots :
       (req[r].pc = "alloc_cas" /\ req'[r] # req[r]) =>
          LET item == req[r].input.items[req[r].idx]
          IN IF products[item.sku].version = req[r].observed
             THEN /\ products'[item.sku].available_stock
                        = products[item.sku].available_stock - item.quantity
                  /\ products'[item.sku].version = req[r].observed + 1
                  /\ req'[r].allocated = Append(req[r].allocated, item)
             ELSE /\ products' = products
                  /\ req'[r].allocated = req[r].allocated
                  /\ IF req[r].retries < MaxAllocRetries
                     THEN /\ req'[r].pc = "alloc_read"
                          /\ req'[r].retries = req[r].retries + 1
                     ELSE /\ req'[r].pc = "done"
                          /\ req'[r].error = "InsufficientStockError"

C15_RetriesBounded ==
    \A r \in salesSlots : req[r].retries \in 0..MaxAllocRetries

C15_BoundedRetryTerminates ==
    /\ [][C15_ConditionalUpdateStep]_vars
    /\ []C15_RetriesBounded
    /\ \A r \in ReqIds : Allocating(r) ~> ~Allocating(r)

\* competing writers changed the version before each conditional update: the
\* retries are used up and create_sale ended with InsufficientStockError though
\* the stock would have sufficed
C15_Witness ==
    \E r \in salesSlots :
       /\ req[r].pc = "done" /\ req[r].error = "InsufficientStockError"
       /\ req[r].retries = MaxAllocRetries
       /\ req[r].allocated = <<>>
       /\ products["A"].available_stock >= 1 /\ products["B"].available_stock >= 1

\* C16: the Sale document create_sale inserts has status processing and a
\* status_history of one entry, processing by the sale's agent_id; the first
\* entry of every stored sale's history stays that entry; and a
\* get_sale_status of a sale whose status nobody has updated since its
\* creation returns processing.
C16_InsertedAsProcessing ==
    Len(sales') > Len(sales) =>
       LET sale == sales'[Len(sales')]
       IN /\ Len(sales') = Len(sales) + 1
          /\ sale.status = "processing"
          /\ Len(sale.status_history) = 1
          /\ sale.status_history[1].status = "processing"
          /\ sale.status_history[1].actor_id = sale.agent_id
          /\ \E r \in salesSlots :
                req[r].pc = "insert" /\ sale.agent_id = req[r].input.agent_id

C16_StatusReturned ==
    \A r \in salesSlots :
       (req[r].pc = "called" /\ req[r].action = "get_sale_status"
          /\ req'[r].pc = "done" /\ req'[r].status_code = 200) =>
             /\ req'[r].result.sale_id = req[r].data.sale_id
             /\ req'[r].result.status = sales[req[r].data.sale_id].status
             /\ Len(sales[req[r].data.sale_id].status_history) = 1
                   => req'[r].result.status = "processing"

C16_FirstEntry ==
    \A i \in 1..Len(sales) :
       /\ sales[i].status_history[1].status = "processing"
       /\ sales[i].status_history[1].actor_id = sales[i].agent_id

C16_PersistedAsProcessing ==
    /\ [][C16_InsertedAsProcessing /\ C16_StatusReturned]_vars
    /\ []C16_FirstEntry

\* a create_sale by u1 returned its sale and the next request, a
\* get_sale_status of that sale, returned processing
C16_Witness ==
    \E r, q \in salesSlots :
       /\ req[r].action = "create_sale" /\ req[r].status_code = 200
       /\ req[r].sale_id = 1 /\ sales[1].agent_id = "u1"
       /\ req[q].action = "get_sale_status" /\ req[q].status_code = 200
       /\ req[q].result = [sale_id |-> 1, status |-> "processing"]
       /\ Len(sales[1].status_history) = 1

\* C17: in every stored sale each item's unit_price is the product's
\* standard_selling_price, its total_price is unit_price * quantity rounded to
\* two fractional digits, and total_amount is exactly the sum of the items'
\* total_price.
RECURSIVE ExactSum(_)
ExactSum(items) ==
    IF items = <<>> THEN FloatOfCents(0)
    ELSE ExactAdd(Head(items).total_price, ExactSum(Tail(items)))

RECURSIVE SumOfCents(_)
SumOfCents(items) ==
    IF items = <<>> THEN 0 ELSE CentsOf(Head(items).total_price) + SumOfCents(Tail(items))

ItemPricesRounded(sale) ==
    \A i \in 1..Len(sale.items) :
       LET item == sale.items[i]
       IN /\ item.unit_price = InitProducts[item.sku].standard_selling_price
          /\ item.total_price = Round2(FloatTimesInt(item.unit_price, item.quantity))

C17_TotalIsExactSum ==
    \A n \in 1..Len(sales) :
       /\ ItemPricesRounded(sales[n])
       /\ sales[n].total_amount = ExactSum(sales[n].items)

\* the part of C17 the code keeps: the items' prices are the rounded floats
\* and total_amount is the float nearest to the sum of the items' cents
C17_TotalToTheCent ==
    \A n \in 1..Len(sales) :
       /\ ItemPricesRounded(sales[n])
       /\ sales[n].total_amount = FloatOfCents(SumOfCents(sales[n].items))

\* C18: a step changes the status_history of a sale or the tracking_history
\* of a delivery only by appending entries at its end, and in every history
\* the timestamps never decrease from one entry to the next.
IsPrefix(h, g) == Len(h) <= Len(g) /\ SubSeq(g, 1, Len(h)) = h

NonDecreasing(h) == \A i \in 1..(Len(h) - 1) : h[i].timestamp <= h[i + 1].timestamp

C18_AppendOnlyStep ==
    /\ \A n \in 1..Len(sales) :
          /\ n <= Len(sales')
          /\ IsPrefix(sales[n].status_history, sales'[n].status_history)
    /\ \A d \in DeliveryIds :
          IsPrefix(deliveries[d].tracking_history, deliveries'[d].tracking_history)

C18_TimestampsNonDecreasing ==
    /\ \A n \in 1..Len(sales) : NonDecreasing(sales[n].status_history)
    /\ \A d \in DeliveryIds : NonDecreasing(deliveries[d].tracking_history)

C18_AppendOnlyMonotonicHistories ==
    [][C18_AppendOnlyStep]_vars /\ []C18_TimestampsNonDecreasing

\* the part of C18 the code keeps: histories only grow at their end
C18_AppendOnly == [][C18_AppendOnlyStep]_vars

\* C19: the step in which update_delivery_status writes a transition hands
\* exactly one delivery_status_changed event, for that delivery and its new
\* status, to the publisher; the step in which update_courier_location writes
\* a location hands it exactly one delivery_location_update event; both are
\* addressed to the user who is the delivery's client_profile_id and reach the
\* channel when the broker is available; no other step of a delivery call
\* emits an event, so a call that ends rejected has emitted none.
EmittedBy(c) ==
    LET id == call[c].data.delivery_id
    IN IF call[c].pc = "status_write"
       THEN WebsocketUpdate("user", deliveries[id].client_profile_id,
                            "delivery_status_changed",
                            [delivery_id |-> id,
                             new_status  |-> deliveries'[id].current_status])
       ELSE WebsocketUpdate("user", deliveries[id].client_profile_id,
                            "delivery_location_update",
                            [delivery_id |-> id,
                             location    |-> deliveries'[id].current_location])

Writes(c) ==
    /\ call[c].pc \in {"status_write", "location_write"}
    /\ call'[c].pc = "done"

C19_EventPerWrite ==
    /\ \A c \in delivSlots :
          Writes(c) =>
             /\ call'[c].status_code = 200
             /\ deliveries' # deliveries
             /\ events' = Append(events, EmittedBy(c))
             /\ "broker" \notin down => channel' = Append(channel, EmittedBy(c))
    /\ (\A c \in delivSlots : ~Writes(c)) =>
          (events' = events /\ channel' = channel /\ deliveries' = deliveries)
    /\ \A c \in delivSlots :
          (call'[c].pc = "done" /\ call'[c].status_code # 200) => ~Writes(c)

C19_EventPerAcceptedUpdate == [][C19_EventPerWrite]_vars

\* a status transition and a location update were accepted: two events, one
\* of each type, both addressed to the client and both on the channel
C19_Witness ==
    /\ Len(events) = 2
    /\ \E i, j \in 1..2 :
          /\ events[i].event_type = "delivery_status_changed"
          /\ events[j].event_type = "delivery_location_update"
    /\ \A i \in 1..2 : events[i].target = "user" /\ events[i].target_id = "c1"
    /\ channel = events

\* C20: when the listener routes a payload whose target is user, the only
\* subscribers that receive the message are those whose id is the payload's
\* target_id (none when the target_id is missing).
RoutedPayload == channel[cursor + 1]

\* the step routes the next payload of the channel
Routing ==
    /\ listener.pc = "listen" /\ ~listener.stop_event
    /\ cursor' = cursor + 1

C20_OnlyTargetReceives ==
    (Routing /\ RoutedPayload.target = "user") =>
       \A u \in Subscribers :
          received'[u] # received[u] => u = RoutedPayload.target_id

C20_UserEventsOnlyToTarget == [][C20_OnlyTargetReceives]_vars

\* the part of C20 the code keeps: a user payload that carries a target_id
\* goes to that subscriber and to nobody else
C20_AddressedUserEvents ==
    [][(Routing /\ RoutedPayload.target = "user"
          /\ RoutedPayload.target_id # None) =>
             \A u \in Subscribers :
                received'[u] # received[u] <=> u = RoutedPayload.target_id]_vars

\* C21: when the listener routes a payload whose target is group, the only
\* subscribers that receive the message are those that joined the group named
\* by the payload's target_id.
C21_OnlyGroupReceives ==
    (Routing /\ RoutedPayload.target = "group") =>
       \A u \in Subscribers :
          received'[u] # received[u] => u \in GroupMembers(RoutedPayload.target_id)

C21_GroupEventsOnlyToMembers == [][C21_OnlyGroupReceives]_vars

\* C22: when the listener routes a payload whose target is all, every
\* subscriber receives the message; when it routes a payload whose target is
\* none of all, user and group, every subscriber receives the message as well
\* and one warning is logged.
KnownTargets == {"all", "user", "group"}

C22_AllAndUnknownStep ==
    /\ (Routing /\ RoutedPayload.target = "all") =>
          /\ \A u \in Subscribers :
                received'[u] = Append(received[u], WsMessage(RoutedPayload))
          /\ listener'.warnings = listener.warnings
    /\ (Routing /\ RoutedPayload.target \notin KnownTargets) =>
          /\ \A u \in Subscribers :
                received'[u] = Append(received[u], WsMessage(RoutedPayload))
          /\ listener'.warnings = listener.warnings + 1

C22_AllAndUnknownToEveryone == [][C22_AllAndUnknownStep]_vars

\* a payload addressed to a courier was routed: both subscribers hold its
\* message and the warning is in the log
C22_Witness ==
    /\ cursor >= 1
    /\ \E i \in 1..cursor :
          /\ channel[i].target = "courier"
          /\ \A u \in Subscribers :
                \E j \in 1..Len(received[u]) : received[u][j] = WsMessage(channel[i])
    /\ listener.warnings >= 1

\* C23: in every behaviour in which a listener task is started, the stop
\* event is never set and the broker is eventually reachable for good, the
\* task eventually holds a subscription made on the current connection, stays
\* in the receive loop and has routed every message published since.
BrokerReachable == "broker" \notin down

Subscribed ==
    /\ listener.pc = "listen"
    /\ listener.pubsub = "subscribed"

C23_ResubscribesAfterLoss ==
    ( /\ <>listener.handle
      /\ [](~listener.stop_event)
      /\ <>[]BrokerReachable )
    => <>[](Subscribed /\ cursor = Len(channel))

\* the task lost the broker, subscribed again and routed a message afterwards
C23_Witness ==
    /\ listener.lost /\ listener.resumed
    /\ Subscribed
    /\ ~listener.stop_event
    /\ Len(received["c1"]) >= 1

\* C24: whenever stop_websocket_listener has signalled a running listener
\* task, that task eventually is done and the handle is cleared, wherever the
\* task was at that moment; with the handle cleared, start_websocket_listener
\* creates a new task.
StopSignalled(n) ==
    /\ listener.stop_pc = "waiting"
    /\ listener.awaited = n

StoppedAndCleared(n) ==
    /\ listener.stop_pc = "idle"
    /\ ~listener.handle
    /\ listener.starts > n \/ listener.pc = "done"

\* the stop returns only when the awaited task is done, and clears the handle
C24_StopReturnsCleared ==
    (listener.stop_pc = "waiting" /\ listener'.stop_pc = "idle") =>
       /\ AwaitedDone
       /\ ~listener'.handle

\* with the handle cleared, start_websocket_listener creates a task
C24_ClearedHandleAllowsStart ==
    (~listener.handle /\ listener.starts < MaxStarts) =>
       ENABLED StartWebsocketListener

C24_StopTerminatesListener ==
    /\ \A n \in 1..MaxStarts : StopSignalled(n) ~> StoppedAndCleared(n)
    /\ [][C24_StopReturnsCleared]_vars
    /\ []C24_ClearedHandleAllowsStart

\* the first task was stopped and a second one, created by a later start, is
\* in its receive loop
C24_Witness ==
    /\ listener.starts = 2
    /\ listener.awaited = 1
    /\ listener.stop_pc = "idle"
    /\ listener.handle
    /\ Subscribed

\* C25: no call of publish raises; a call made without a client, with the
\* broker unreachable or with a payload json.dumps rejects returns False, logs
\* an error and leaves the channel as it was; the other calls return True with
\* the message on the channel; and publish_websocket_update, the caller,
\* completes in every case.
PublishFails(c) ==
    \/ ~c.has_client
    \/ c.broker_down
    \/ JsonDumps(c.kind) # None

C25_PublishStep ==
    Len(notifier'.calls) = Len(notifier.calls) + 1 =>
       LET c == notifier'.calls[Len(notifier'.calls)]
       IN /\ c.publish.raised = None
          /\ c.completed
          /\ PublishFails(c) =>
                /\ c.publish.returned = "False"
                /\ c.publish.logged = "error"
                /\ channel' = channel
          /\ ~PublishFails(c) =>
                /\ c.publish.returned = "True"
                /\ channel' = Append(channel, c.payload)

C25_PublishNeverRaises == [][C25_PublishStep]_vars

\* three ways to fail were met, each logged and answered with False: no
\* client, a circular payload, the broker unreachable with a cached client
C25_Witness ==
    /\ Len(notifier.calls) = 2
    /\ ~notifier.calls[1].has_client
    /\ notifier.calls[2].has_client
    /\ notifier.calls[2].kind = "circular"
    /\ \A i \in 1..2 : /\ notifier.calls[i].publish.returned = "False"
                       /\ notifier.calls[i].completed
    /\ channel = <<>>

\* C26: no task message is executed more than max_attempts times, and a
\* message whose executions raised until no attempt was left is in the
\* dead-letter queue.
MaxAttempts == 3          \* retry = {max_attempts = 3} of enqueue

InDeadLetter(i) ==
    \E j \in 1..Len(worker.dead_letter) : worker.dead_letter[j] = i

C26_RetriedThenDeadLettered ==
    \A i \in 1..Len(worker.messages) :
       /\ worker.messages[i].attempts <= MaxAttempts
       /\ worker.messages[i].state = "failure" => InDeadLetter(i)

\* the part of C26 the code keeps: no message is executed for ever; every
\* message ends as success or failure, after at most max_retries + 1
\* executions
C26_AttemptsBounded ==
    \A i \in 1..Len(worker.messages) :
       worker.messages[i].attempts <= MaxRetries(worker.messages[i].name) + 1

C26_TaskEnds ==
    \A i \in 1..MaxTasks :
       (Len(worker.messages) >= i) ~>
          (Len(worker.messages) >= i /\ worker.messages[i].state # "queued")

\* C27: the audit record and the event of a create_sale request carry the
\* trace id of the request, the one its context holds and its response header
\* returns.
EventTraceId(message) ==
    IF "trace_id" \in DOMAIN message THEN message.trace_id
    ELSE IF "trace_id" \in DOMAIN message.data THEN message.data.trace_id
    ELSE None

C27_TraceIdOnAuditAndEvents ==
    \A r \in salesSlots :
       req[r].post = "ran" =>
          /\ \A i \in 1..Len(audit) :
                audit[i].entity_id = req[r].sale_id =>
                   audit[i].trace_id = req[r].trace_id
          /\ \A i \in 1..Len(events) :
                events[i].data.sale_id = req[r].sale_id =>
                   EventTraceId(events[i]) = req[r].trace_id

\* the part of C27 the code keeps: every handled /mcp/exec request has its
\* trace id (the X-Trace-ID header, else a generated one) on the response and
\* in the context handed to the agent
C27_TraceIdOnResponse ==
    \A g \in GatewaySlots : gwLog[g].handled =>
       /\ gwLog[g].x_trace_id # None
       /\ gwLog[g].header # None => gwLog[g].x_trace_id = gwLog[g].header
       /\ gwLog[g].exec_context.trace_id = gwLog[g].x_trace_id

\* a request that ran its post-sale step still knows its trace id
C27_RequestKeepsTraceId ==
    \A r \in salesSlots :
       req[r].post = "ran" => req[r].trace_id \in {"t-1", "t-2"}

\* C28: two calls in which the same agent raised an exception that is not an
\* AgentExecutionError are answered with status 500 and with the same body,
\* whatever the texts of the two exceptions.
FailedUnexpectedly(k) ==
    /\ regCalls[k].agent_name \in RegisteredAgents
    /\ regCalls[k].agent.cause # None

C28_BodyIndependentOfException ==
    \A k, l \in RegSlots :
       ( /\ FailedUnexpectedly(k) /\ FailedUnexpectedly(l)
         /\ regCalls[k].agent_name = regCalls[l].agent_name
         /\ regCalls[k].agent.kind = regCalls[l].agent.kind )
       => /\ regCalls[k].response.status_code = 500
          /\ regCalls[k].response = regCalls[l].response

\* the part of C28 the code keeps: the status is 500
C28_UnexpectedIs500 ==
    \A k \in RegSlots :
       FailedUnexpectedly(k) => regCalls[k].response.status_code = 500

\* C29: a call in which the service raised a Conflict-class error (duplicate
\* sale, insufficient stock, low client score, invalid delivery status,
\* duplicate profile) is answered with an AgentExecutionError of status 409.
ConflictErrors ==
    {"DuplicateSaleError", "InsufficientStockError", "LowClientScoreError",
     "InvalidDeliveryStatusError", "DuplicateProfileError"}

C29_ConflictIs409 ==
    \A k \in RegSlots :
       regCalls[k].service_error \in ConflictErrors =>
          /\ regCalls[k].result.kind = "AgentExecutionError"
          /\ regCalls[k].result.status_code = 409
          /\ regCalls[k].response.status_code = 409

\* the part of C29 the code keeps: the conflicts of the sales and delivery
\* services are answered with 409
C29_SalesAndDeliveryConflictIs409 ==
    \A k \in RegSlots :
       ( /\ regCalls[k].service_error \in ConflictErrors
         /\ regCalls[k].agent_name \in {"sales", "delivery"} )
       => regCalls[k].response.status_code = 409


(***************************************************************************)
(* C30: the audit sanitizer                                                *)
(***************************************************************************)
RECURSIVE SecretsMasked(_)
\* every value under a secret key is the mask, at every level of the value
SecretsMasked(v) ==
    IF v.type = "dict"
    THEN \A i \in 1..Len(v.items) :
            IF IsSecretKey(v.items[i].key) THEN v.items[i].value = Masked
            ELSE SecretsMasked(v.items[i].value)
    ELSE IF v.type = "list"
    THEN \A i \in 1..Len(v.items) : SecretsMasked(v.items[i])
    ELSE TRUE

RECURSIVE ListsBounded(_)
\* no list of the value has more than 50 elements
ListsBounded(v) ==
    IF v.type = "dict"
    THEN \A i \in 1..Len(v.items) : ListsBounded(v.items[i].value)
    ELSE IF v.type = "list"
    THEN Len(v.items) <= MaxListLength
         /\ \A i \in 1..Len(v.items) : ListsBounded(v.items[i])
    ELSE TRUE

\* the characters of a string that come from the input: all of them, or all
\* but the truncation mark
OriginalChars(chars) ==
    IF Len(chars) > Len(Truncated)
       /\ SubSeq(chars, Len(chars) - Len(Truncated) + 1, Len(chars)) = Truncated
    THEN Len(chars) - Len(Truncated)
    ELSE Len(chars)

RECURSIVE ValueStringsBounded(_)
\* no string value has more than 500 original characters
ValueStringsBounded(v) ==
    IF v.type = "dict"
    THEN \A i \in 1..Len(v.items) : ValueStringsBounded(v.items[i].value)
    ELSE IF v.type = "list"
    THEN \A i \in 1..Len(v.items) : ValueStringsBounded(v.items[i])
    ELSE OriginalChars(v.chars) <= MaxStringLength

RECURSIVE KeyStringsBounded(_)
\* no dict key has more than 500 characters
KeyStringsBounded(v) ==
    IF v.type = "dict"
    THEN \A i \in 1..Len(v.items) :
            /\ Len(v.items[i].key) <= MaxStringLength
            /\ KeyStringsBounded(v.items[i].value)
    ELSE IF v.type = "list"
    THEN \A i \in 1..Len(v.items) : KeyStringsBounded(v.items[i])
    ELSE TRUE

RECURSIVE NestedWithin(_, _)
\* no dict or list of the value lies inside more than n others
NestedWithin(v, n) ==
    IF v.type = "dict"
    THEN n >= 0 /\ \A i \in 1..Len(v.items) : NestedWithin(v.items[i].value, n - 1)
    ELSE IF v.type = "list"
    THEN n >= 0 /\ \A i \in 1..Len(v.items) : NestedWithin(v.items[i], n - 1)
    ELSE TRUE

\* C30: for every input, the sanitizer's output has the mask under every key
\* whose lowercase form contains a secret word, no list of more than 50
\* elements, no string (value or key) of more than 500 original characters,
\* and no structure nested deeper than 5
C30_SanitizedOutput ==
    sanit.called =>
        /\ SecretsMasked(sanit.output)
        /\ ListsBounded(sanit.output)
        /\ ValueStringsBounded(sanit.output)
        /\ KeyStringsBounded(sanit.output)
        /\ NestedWithin(sanit.output, MaxDepth)

\* C30, what holds: the same with the strings that are values only
C30_SanitizedValues ==
    sanit.called =>
        /\ SecretsMasked(sanit.output)
        /\ ListsBounded(sanit.output)
        /\ ValueStringsBounded(sanit.output)
        /\ NestedWithin(sanit.output, MaxDepth)

\* C30: an input with a secret at the deepest level reached, a list of 51
\* elements or a string of 501 characters has been sanitized
C30_InputsNeedSanitizing ==
    /\ sanit.called
    /\ ~ (SecretsMasked(sanit.input) /\ ListsBounded(sanit.input)
          /\ ValueStringsBounded(sanit.input))
    /\ ~ NestedWithin(sanit.input, MaxDepth)

\* C30: a long key is the only thing that survives
C30_OnlyKeysSurvive ==
    (sanit.called /\ KeyStringsBounded(sanit.input)) =>
        KeyStringsBounded(sanit.output)


(***************************************************************************)
(* C31, C32: profiles                                                       *)
(***************************************************************************)
UniqueOn(f) ==
    \A i, j \in 1..Len(people.profiles) :
       (i # j /\ people.profiles[i][f] # None) =>
          people.profiles[i][f] # people.profiles[j][f]

\* C31: no two stored profiles share the same non-null email, the same
\* non-null whatsapp_id or the same non-null user_id, after any sequence of
\* creates and updates
C31_IdentifiersUnique ==
    UniqueOn("email") /\ UniqueOn("whatsapp_id") /\ UniqueOn("user_id")

\* C31, what holds: a field is unique from the moment its unique index exists
C31_UniqueWhereIndexed ==
    \A f \in people.unique : UniqueOn(f)

\* C31, what holds: a create answered with DuplicateProfileError names a field
\* another profile has the value of, and stores nothing
C31_RejectedCreateStoresNothing ==
    [][(people'.last.op = "create" /\ people'.last.error = "DuplicateProfileError"
        /\ people' # people) =>
          /\ people'.profiles = people.profiles
          /\ people'.last.field \in people.unique]_vars

SameNames(a, b) == a.first_name = b.first_name /\ a.last_name = b.last_name

\* C32: two stored profiles with equal first_name and last_name have equal
\* full_name, whether the names were set by create or by update
C32_FullNameByOneRule ==
    \A i, j \in 1..Len(people.profiles) :
       SameNames(people.profiles[i], people.profiles[j]) =>
          people.profiles[i].full_name = people.profiles[j].full_name

\* C32, what holds: with a first_name, create and update store the same
\* full_name, first and last joined by a space and stripped
C32_FullNameWithFirstName ==
    \A i \in 1..Len(people.profiles) :
       Truthy(people.profiles[i].first_name) =>
          people.profiles[i].full_name =
             JoinNames(people.profiles[i].first_name, people.profiles[i].last_name)


(***************************************************************************)
(* C33: the semantic executor                                               *)
(***************************************************************************)
\* the regions of the deployment's policy
PermittedRegions == {"us-east-1", "eu-west-1"}

\* the shape of an S3 bucket name: 3 to 63 characters, lowercase letters,
\* digits, hyphens and dots, a letter or a digit first and last
LetterOrDigit(c) == (c >= 97 /\ c <= 122) \/ (c >= 48 /\ c <= 57)
BucketNameShape(chars) ==
    /\ Len(chars) >= 3 /\ Len(chars) <= 63
    /\ \A k \in 1..Len(chars) : LetterOrDigit(chars[k]) \/ chars[k] \in {45, 46}
    /\ LetterOrDigit(chars[1]) /\ LetterOrDigit(chars[Len(chars)])

CallPermitted(made) ==
    /\ made.region \in PermittedRegions
    /\ made.api = "ec2.run_instances" => made.instance_type \in AllowedTypes
    /\ made.api = "s3.create_bucket" => BucketNameShape(made.bucket_name)

\* C33: whatever the LLM returns, every provider call is made with a region,
\* an instance type and a bucket name of the permitted set
C33_CallsWithinAllowList ==
    \A k \in 1..Len(cloud.calls) : CallPermitted(cloud.calls[k])

\* C33, what holds: a provider call is made only by a step whose payload names
\* a (service, action) pair of the table, and never in a dry run
C33_OnlyTablePairs ==
    [][cloud'.calls # cloud.calls =>
         \E interpreted_payload \in InterpretedPayloads :
            /\ <<Lower(interpreted_payload.service), Lower(interpreted_payload.action)>>
                  \in ExecutionMap
            /\ Execute(interpreted_payload, FALSE, FALSE)
               \/ Execute(interpreted_payload, FALSE, TRUE)]_vars

\* C33, what holds: the instance type of every EC2 call is an allowed one
C33_InstanceTypeAllowed ==
    \A k \in 1..Len(cloud.calls) :
       cloud.calls[k].api = "ec2.run_instances" =>
          cloud.calls[k].instance_type \in AllowedTypes


(***************************************************************************)
(* C34: TTL of deliveries                                                   *)
(***************************************************************************)
Expiring(d) == deliveries[d].expire_at # -1
Terminal(d) == deliveries[d].current_status \in TerminalStatuses

\* C34: expire_at is set if and only if current_status is terminal; a delivery
\* in a non-terminal status is never scheduled for the TTL purge
C34_ExpireAtIffTerminal ==
    \A d \in DeliveryIds : Expiring(d) <=> Terminal(d)

\* C34, what holds: a delivery in a terminal status has expire_at set
C34_TerminalExpires ==
    \A d \in DeliveryIds : Terminal(d) => Expiring(d)

\* C34, what holds: expire_at, once set, is moved by terminal updates only and
\* never removed
C34_ExpireAtNeverCleared ==
    [][\A d \in DeliveryIds :
          Expiring(d) =>
             /\ deliveries'[d].expire_at # -1
             /\ deliveries'[d].expire_at # deliveries[d].expire_at
                   => deliveries'[d].current_status \in TerminalStatuses]_vars


(***************************************************************************)
(* C35, C36: the listener's reconnect logic and its tasks                   *)
(***************************************************************************)
\* the pubsub object holds the subscription to the patterns (psubscribe
\* subscribes to all of them in one command); the connection may have dropped
\* since, which ends the wait
HoldsSubscription == listener.pubsub \in {"subscribed", "broken"}

RunningLoops == listener.orphans + (IF LoopRunning(listener) THEN 1 ELSE 0)

C36_StartNoOpWhileHandleAlive ==
    (listener.handle /\ LoopRunning(listener)) => ~ ENABLED StartWebsocketListener

\* C36, what holds: when no start is made while a stop is waiting, at most one
\* loop is running
C36_OneLoopWithoutRace == ~listener.raced => RunningLoops <= 1

SeqRange(s) == {s[i] : i \in 1..Len(s)}

\* C37: once forget_message has returned true for a message, no later
\* get_recent_messages returns it, from the cache or from MongoDB
C37_ForgottenNeverReturned ==
    memory.last.op = "get_recent_messages"
      => SeqRange(memory.last.answer) \cap memory.forgotten = {}

\* C37, what holds: an answer served by MongoDB holds no forgotten message
C37_MongoAnswerNotForgotten ==
    (memory.last.op = "get_recent_messages" /\ memory.last.served = "mongo")
      => SeqRange(memory.last.answer) \cap memory.forgotten = {}

\* C38: get_recent_messages(limit) answers with the min(limit, n) most recent
\* non-forgotten messages stored in MongoDB, oldest first, as it would without
\* the cache; and a cached message was persisted in MongoDB first
C38_CacheEquivalent ==
    /\ (memory.last.op = "get_recent_messages" /\ ~ memory.last.mongo_error)
         => \E s \in Find(memory.docs, memory.last.limit) :
               memory.last.answer = Reverse(s)
    /\ \A i \in 1..Len(memory.cache) :
         /\ memory.cache[i].id \in 1..Len(memory.docs)
         /\ memory.docs[memory.cache[i].id].timestamp = memory.cache[i].timestamp

\* C38, what holds: a cached message was persisted in MongoDB first
C38_CachedWerePersisted ==
    \A i \in 1..Len(memory.cache) :
       /\ memory.cache[i].id \in 1..Len(memory.docs)
       /\ memory.docs[memory.cache[i].id].timestamp = memory.cache[i].timestamp

\* C38, what holds: an answer served by MongoDB is a result of the query
C38_MongoAnswerIsQuery ==
    (memory.last.op = "get_recent_messages" /\ memory.last.served = "mongo"
       /\ ~ memory.last.mongo_error)
      => \E s \in Find(memory.docs, memory.last.limit) : memory.last.answer = Reverse(s)

\* C38, the equivalence with nothing forgotten and every timestamp set by the
\* service
C38_EquivalentUnforgottenServiceStamped ==
    (/\ memory.last.op = "get_recent_messages" /\ ~ memory.last.mongo_error
     /\ memory.forgotten = {}
     /\ \A i \in 1..Len(memory.docs) : memory.docs[i].timestamp = i)
      => \E s \in Find(memory.docs, memory.last.limit) : memory.last.answer = Reverse(s)

RecordsOf(invocation) ==
    {i \in 1..Len(tool.audit_log) : tool.audit_log[i].invocation = invocation}

\* C39: every invocation that reaches the handler lookup makes one audit
\* write, whose record says success exactly when the handler returned; no
\* outcome makes two writes or none, and a failed write leaves the outcome as
\* it is
C39_ExactlyOneAuditRecord ==
    \A n \in 1..Len(tool.calls) :
       /\ tool.calls[n].attempts = 1
       /\ Cardinality(RecordsOf(n)) = 1 - Cardinality(tool.calls[n].audit_errors)
       /\ \A i \in RecordsOf(n) : tool.audit_log[i].success = tool.calls[n].success
       /\ tool.calls[n].success = (tool.calls[n].status_code = 200)

\* C39, what holds: one audit write for every outcome but the unexpected
\* error, which makes two
C39_OneWriteUnlessUnexpected ==
    \A n \in 1..Len(tool.calls) :
       tool.calls[n].attempts = IF tool.calls[n].status_code = 500 THEN 2 ELSE 1

\* C39, what holds: every record of an invocation carries its outcome, and
\* the records are the writes that did not fail
C39_RecordsCarryOutcome ==
    \A n \in 1..Len(tool.calls) :
       /\ Cardinality(RecordsOf(n))
            = tool.calls[n].attempts - Cardinality(tool.calls[n].audit_errors)
       /\ \A i \in RecordsOf(n) : tool.audit_log[i].success = tool.calls[n].success
       /\ tool.calls[n].success = (tool.calls[n].status_code = 200)

====
